---- MODULE Spec2Model ----
(***************************************************************************)
(* Model of libfitsverify's diagnostic pipeline (fvrf_misc.c), hint        *)
(* generator (fv_hints.c), per-file bookkeeping (fvrf_file.c), public API  *)
(* (fv_api.c) and the validator call sites that drive them.                *)
(***************************************************************************)
EXTENDS Integers, Sequences, FiniteSets, TLC

(* ---- program constants ------------------------------------------------ *)
MAXERRORS == 200
StackCap == 20

FV_OK == 0
FV_ERR_EXTRA_BYTES == 101
FV_ERR_NOT_FIXED_FORMAT == 157
FV_ERR_NAME_NOT_JUSTIFIED == 202
FV_ERR_WRONG_TYPE == 213
FV_ERR_NULL_VALUE == 214
FV_ERR_CARD_TOO_LONG == 215
FV_ERR_VAR_EXCEEDS_MAXLEN == 350
FV_ERR_BIT_NOT_JUSTIFIED == 352
FV_ERR_CFITSIO == 450
FV_ERR_CFITSIO_STACK == 451
FV_ERR_TOO_MANY == 480
FV_WARN_DEPRECATED == 501
FV_WARN_BAD_CHECKSUM == 512
FV_WARN_VAR_EXCEEDS_32BIT == 514

FV_MSG_INFO == 0
FV_MSG_WARNING == 1
FV_MSG_ERROR == 2
FV_MSG_SEVERE == 3

(* ---- bounds ------------------------------------------------------------ *)
MaxHdu == 2
MaxDefects == 2
MaxStack == 1
MaxCols == 1
MaxMsgs == 2

(* ---- value spaces ------------------------------------------------------ *)
NoField == 0 - 1
OutKinds == {"NULL", "stdout", "file"}
Keywords == {"BITPIX", "XKEY"}
VerifySites == {"fv_verify_file", "fv_verify_memory"}
Paths == {"NULL", "file.fits"}
Buffers == {"NULL", "buffer"}
Sizes == {0, 2880}
CardLoads == {1, MAXERRORS, MAXERRORS + 2}

(* text held by a hint buffer or pointed to by a hint pointer *)
Text(src, code, kw, col, owner) ==
    [src |-> src, code |-> code, kw |-> kw, col |-> col, owner |-> owner]
NullText == Text("null", 0, "", 0, 0)
EmptyBuf == Text("empty", 0, "", 0, 0)

(* a pointer stored in the function-static fv_hint of fv_generate_hint *)
NullPtr == [buf |-> "NULL", owner |-> 0]
NoHint == [fix_hint |-> NullPtr, explain |-> NullPtr]

(* ---- fv_hints.c -------------------------------------------------------- *)
fv_get_hint(code) ==
    IF code = FV_OK
    THEN [present |-> FALSE, fix_hint |-> NullText, explain |-> NullText]
    ELSE [present |-> TRUE,
          fix_hint |-> Text("static", code, "", 0, 0),
          explain |-> Text("static", code, "", 0, 0)]

fv_keyword_purpose(kw) == kw = "BITPIX"

FV_HINT_SET_KEYWORD(c, name) == [c EXCEPT !.hint_keyword = name]

FV_HINT_SET_COLNUM(c, col) == [c EXCEPT !.hint_colnum = col]

FV_HINT_SET_FIX(c, code, kw, col) ==
    [c EXCEPT !.hint_fix_buf = Text("callsite", code, kw, col, c.id),
              !.hint_callsite = IF c.hint_callsite \in {1, 3} THEN c.hint_callsite
                                ELSE c.hint_callsite + 1]

FV_HINT_SET_EXPLAIN(c, code, kw, col) ==
    [c EXCEPT !.hint_explain_buf = Text("callsite", code, kw, col, c.id),
              !.hint_callsite = IF c.hint_callsite \in {2, 3} THEN c.hint_callsite
                                ELSE c.hint_callsite + 2]

FV_HINT_CLEAR(c) ==
    [c EXCEPT !.hint_keyword = "", !.hint_colnum = 0, !.hint_callsite = 0]

FixOverridden(c) == c.hint_callsite \in {1, 3}
ExplainOverridden(c) == c.hint_callsite \in {2, 3}

(* the contextual overlay of fv_generate_hint: the switch on the code *)
HintOverlay(c, code) ==
    LET has_kw == c.hint_keyword # ""
        has_col == c.hint_colnum > 0
        ovk == Text("overlay", code, c.hint_keyword, 0, c.id)
        ovc == Text("overlay", code, "", c.hint_colnum, c.id)
    IN  CASE code = FV_ERR_NOT_FIXED_FORMAT ->
               IF has_kw THEN [c EXCEPT !.hint_fix_buf = ovk, !.hint_explain_buf = ovk]
               ELSE c
          [] code = FV_ERR_NAME_NOT_JUSTIFIED ->
               IF has_kw THEN [c EXCEPT !.hint_fix_buf = ovk] ELSE c
          [] code = FV_ERR_WRONG_TYPE ->
               IF c.hint_callsite # 0
               THEN [c EXCEPT !.hint_explain_buf =
                                 IF ~ExplainOverridden(c) /\ fv_keyword_purpose(c.hint_keyword)
                                 THEN ovk ELSE c.hint_explain_buf,
                              !.hint_callsite = 0]
               ELSE IF has_kw
                    THEN [c EXCEPT !.hint_fix_buf = ovk, !.hint_explain_buf = ovk]
                    ELSE c
          [] code = FV_ERR_NULL_VALUE ->
               IF has_kw
               THEN [c EXCEPT !.hint_fix_buf = ovk,
                              !.hint_explain_buf =
                                 IF fv_keyword_purpose(c.hint_keyword) THEN ovk ELSE @]
               ELSE c
          [] code = FV_WARN_DEPRECATED ->
               IF has_kw THEN [c EXCEPT !.hint_fix_buf = ovk] ELSE c
          [] code = FV_ERR_BIT_NOT_JUSTIFIED ->
               IF has_col THEN [c EXCEPT !.hint_fix_buf = ovc, !.hint_explain_buf = ovc]
               ELSE c
          [] code = FV_ERR_VAR_EXCEEDS_MAXLEN ->
               IF c.hint_callsite # 0 THEN [c EXCEPT !.hint_callsite = 0]
               ELSE IF has_col THEN [c EXCEPT !.hint_fix_buf = ovc]
               ELSE c
          [] code = FV_WARN_VAR_EXCEEDS_32BIT ->
               IF has_col THEN [c EXCEPT !.hint_fix_buf = ovc] ELSE c
          [] OTHER ->
               IF c.hint_callsite # 0 THEN [c EXCEPT !.hint_callsite = 0]
               ELSE IF has_kw THEN [c EXCEPT !.hint_fix_buf = ovk]
               ELSE IF has_col THEN [c EXCEPT !.hint_fix_buf = ovc]
               ELSE c

(* ctx->hint_fix_buf[0] ? ctx->hint_fix_buf : NULL, and so for explain *)
BufPtr(c, buf) ==
    LET text == IF buf = "fix_buf" THEN c.hint_fix_buf ELSE c.hint_explain_buf
    IN  IF text.src # "empty" THEN [buf |-> buf, owner |-> c.id] ELSE NullPtr

(* the generic catalogue text copied to a buffer the call site left alone *)
FallbackFix(c, code, present) ==
    IF FixOverridden(c) THEN c
    ELSE [c EXCEPT !.hint_fix_buf =
              IF present THEN Text("static", code, "", 0, c.id) ELSE EmptyBuf]

FallbackExplain(c, code, present) ==
    IF ExplainOverridden(c) THEN c
    ELSE [c EXCEPT !.hint_explain_buf =
              IF present THEN Text("static", code, "", 0, c.id) ELSE EmptyBuf]

(* the stores to the function-static ctx_hint and the pointer returned *)
StoreHint(c) ==
    [ctx |-> c,
     ctx_hint |-> [fix_hint |-> BufPtr(c, "fix_buf"),
                   explain |-> BufPtr(c, "explain_buf")],
     h |-> "ctx_hint"]

(* fv_generate_hint: returns the context after the call, the pointer h it  *)
(* returns ("static", "ctx_hint" or "null") and the value it stores in the *)
(* function-static ctx_hint.                                               *)
fv_generate_hint(c, hint, code) ==
    IF c.hint_keyword = "" /\ ~(c.hint_colnum > 0)
    THEN [ctx |-> c, ctx_hint |-> hint,
          h |-> IF fv_get_hint(code).present THEN "static" ELSE "null"]
    ELSE StoreHint(HintOverlay(
             FallbackExplain(FallbackFix(c, code, fv_get_hint(code).present),
                             code, fv_get_hint(code).present),
             code))

(* ---- fvrf_misc.c: the diagnostic pipeline ------------------------------ *)
(* A pipeline state m is [ctx, ctx_hint, delivered, errstack, status]:     *)
(* the context, the static fv_hint, what has reached the sinks, the        *)
(* reader's error-message stack and the caller's reader status.            *)

Msg(sink, severity, code, hdu, text, fix, explain) ==
    [sink |-> sink, severity |-> severity, code |-> code, hdu_num |-> hdu,
     text |-> text, fix_hint |-> fix, explain |-> explain]

(* a line written with fprintf to a FILE stream *)
Line(stream, text, hint) ==
    Msg(stream, NoField, NoField, NoField, text, hint, NullText)

(* what h->fix_hint / h->explain points to, for the h of a generate call *)
HintTarget(g, code, field) ==
    IF g.h = "static" THEN fv_get_hint(code)[field]
    ELSE LET p == g.ctx_hint[field]
         IN  IF p.buf = "NULL" THEN NullText
             ELSE IF p.buf = "fix_buf" THEN g.ctx.hint_fix_buf
             ELSE g.ctx.hint_explain_buf

reset_err_wrn(c) == [c EXCEPT !.nwrns = 0, !.nerrs = 0]

fits_clear_errmsg(m) == [m EXCEPT !.errstack = 0]

(* dispatch_msg attaching the fix hint whenever a hint was generated *)
dispatch_msg_anyhint(m, severity, code, text) ==
    LET c == m.ctx
        g == IF (c.fix_hints # 0 \/ c.explain # 0) /\ code # FV_OK
             THEN fv_generate_hint(c, m.ctx_hint, code)
             ELSE [ctx |-> c, ctx_hint |-> m.ctx_hint, h |-> "null"]
        fix == IF g.h # "null"
               THEN HintTarget(g, code, "fix_hint") ELSE NullText
        exp == IF g.h # "null" /\ c.explain # 0
               THEN HintTarget(g, code, "explain") ELSE NullText
    IN  [m EXCEPT !.ctx = FV_HINT_CLEAR(g.ctx),
                  !.ctx_hint = g.ctx_hint,
                  !.delivered = Append(@, Msg("callback", severity, code,
                                              c.curhdu, text, fix, exp))]

(* the hint lookup of dispatch_msg *)
LookupHint(m, code) ==
    IF (m.ctx.fix_hints # 0 \/ m.ctx.explain # 0) /\ code # FV_OK
    THEN fv_generate_hint(m.ctx, m.ctx_hint, code)
    ELSE [ctx |-> m.ctx, ctx_hint |-> m.ctx_hint, h |-> "null"]

(* the fv_message built around the hint g, handed to the callback *)
Callback(m, g, severity, code, text) ==
    [m EXCEPT !.ctx = FV_HINT_CLEAR(g.ctx),
              !.ctx_hint = g.ctx_hint,
              !.delivered =
                  Append(@, Msg("callback", severity, code, m.ctx.curhdu, text,
                                IF g.h # "null" /\ m.ctx.fix_hints # 0
                                THEN HintTarget(g, code, "fix_hint") ELSE NullText,
                                IF g.h # "null" /\ m.ctx.explain # 0
                                THEN HintTarget(g, code, "explain") ELSE NullText))]

dispatch_msg(m, severity, code, text) ==
    Callback(m, LookupHint(m, code), severity, code, text)

(* out is a regular file: neither NULL nor stdout nor stderr *)
IsRegular(out) == out \notin {"NULL", "stdout", "stderr"}

(* a hint line goes to out when that is a regular file, and to stderr *)
HintLine(out, enabled, label, hint) ==
    IF enabled # 0 /\ hint.src # "null"
    THEN (IF IsRegular(out) THEN <<Line(out, label, hint)>> ELSE <<>>)
         \o <<Line("stderr", label, hint)>>
    ELSE <<>>

(* the fprintf calls of print_hints_file for the hint g *)
WriteHints(m, out, g, code) ==
    [m EXCEPT !.ctx = FV_HINT_CLEAR(g.ctx),
              !.ctx_hint = g.ctx_hint,
              !.delivered =
                  IF g.h = "null" THEN @
                  ELSE @ \o HintLine(out, m.ctx.fix_hints, "    Fix: ",
                                     HintTarget(g, code, "fix_hint"))
                         \o HintLine(out, m.ctx.explain, "    Explanation: ",
                                     HintTarget(g, code, "explain"))]

print_hints_file(m, out, code) ==
    IF (m.ctx.fix_hints = 0 /\ m.ctx.explain = 0) \/ code = FV_OK
    THEN [m EXCEPT !.ctx = FV_HINT_CLEAR(m.ctx)]
    ELSE WriteHints(m, out, fv_generate_hint(m.ctx, m.ctx_hint, code), code)

print_fmt(m, out, text) ==
    IF m.ctx.output_fn # "NULL" THEN dispatch_msg(m, FV_MSG_INFO, FV_OK, text)
    ELSE IF out = "NULL" THEN m
    ELSE [m EXCEPT !.delivered = Append(@, Line(out, text, NullText))]

wrtout(m, out, mess) ==
    IF m.ctx.output_fn # "NULL" THEN dispatch_msg(m, FV_MSG_INFO, FV_OK, mess)
    ELSE IF out # "NULL" THEN [m EXCEPT !.delivered = Append(@, Line(out, mess, NullText))]
    ELSE m

WarnPrefix == "*** Warning: "
ErrPrefix == "*** Error:   "
TooManyText == "??? Too many Errors! I give up..."

(* wrtwrn without its look at err_report *)
wrtwrn_nofilter(m, out, isheasarc, code) ==
    LET c == m.ctx
        m1 == [m EXCEPT !.ctx.nwrns = @ + 1]
    IN  IF c.maxerrors_reached # 0 THEN [m EXCEPT !.ctx = FV_HINT_CLEAR(c)]
        ELSE IF c.heasarc_conv = 0 /\ isheasarc # 0 THEN [m EXCEPT !.ctx = FV_HINT_CLEAR(c)]
        ELSE IF c.output_fn # "NULL"
             THEN dispatch_msg(m1, FV_MSG_WARNING, code, WarnPrefix)
             ELSE print_hints_file(print_fmt(m1, out, WarnPrefix), out, code)

(* wrtwrn without its look at the abort flag *)
wrtwrn_noabort(m, out, isheasarc, code) ==
    LET c == m.ctx
        m1 == [m EXCEPT !.ctx.nwrns = @ + 1]
    IN  IF c.err_report # 0 THEN [m EXCEPT !.ctx = FV_HINT_CLEAR(c)]
        ELSE IF c.heasarc_conv = 0 /\ isheasarc # 0 THEN [m EXCEPT !.ctx = FV_HINT_CLEAR(c)]
        ELSE IF c.output_fn # "NULL"
             THEN dispatch_msg(m1, FV_MSG_WARNING, code, WarnPrefix)
             ELSE print_hints_file(print_fmt(m1, out, WarnPrefix), out, code)

wrtwrn(m, out, isheasarc, code) ==
    LET c == m.ctx
        m1 == [m EXCEPT !.ctx.nwrns = @ + 1]
    IN  IF c.maxerrors_reached # 0 THEN [m EXCEPT !.ctx = FV_HINT_CLEAR(c)]
        ELSE IF c.err_report # 0 THEN [m EXCEPT !.ctx = FV_HINT_CLEAR(c)]
        ELSE IF c.heasarc_conv = 0 /\ isheasarc # 0 THEN [m EXCEPT !.ctx = FV_HINT_CLEAR(c)]
        ELSE IF c.output_fn # "NULL"
             THEN dispatch_msg(m1, FV_MSG_WARNING, code, WarnPrefix)
             ELSE print_hints_file(print_fmt(m1, out, WarnPrefix), out, code)

(* the cap compared with >= *)
CapExceeded_ge(c) == c.nerrs >= MAXERRORS

(* the check of the error cap made after an error has been emitted *)
CapExceeded(c) == c.nerrs > MAXERRORS

(* the tail shared by wrterr, wrtferr and wrtserr: the terminal diagnostic *)
TooMany(m) ==
    IF CapExceeded(m.ctx)
    THEN LET m1 == IF m.ctx.output_fn # "NULL"
                   THEN dispatch_msg(m, FV_MSG_SEVERE, FV_ERR_TOO_MANY, TooManyText)
                   ELSE [m EXCEPT !.delivered = Append(@, Line("stderr", TooManyText, NullText))]
         IN  [m1 EXCEPT !.ctx.maxerrors_reached = 1]
    ELSE m

(* the error text written to stderr alone *)
ErrToFile_stderr(m, out) ==
    IF out # "NULL" THEN print_fmt(m, "stderr", ErrPrefix) ELSE m

(* the error text written by the FILE branch of wrterr/wrtferr/wrtserr *)
ErrToFile(m, out) ==
    IF out # "NULL"
    THEN print_fmt(IF IsRegular(out) THEN print_fmt(m, out, ErrPrefix) ELSE m,
                   "stderr", ErrPrefix)
    ELSE m

SeverityOf(severity) == IF severity >= 2 THEN FV_MSG_SEVERE ELSE FV_MSG_ERROR

(* wrterr without its look at the abort flag *)
wrterr_noabort(m, out, severity, code) ==
    LET c == m.ctx
        m1 == [m EXCEPT !.ctx.nerrs = @ + 1]
    IN  IF severity < c.err_report
        THEN fits_clear_errmsg([m EXCEPT !.ctx = FV_HINT_CLEAR(c)])
        ELSE IF c.output_fn # "NULL"
        THEN fits_clear_errmsg(TooMany(dispatch_msg(m1, SeverityOf(severity), code, ErrPrefix)))
        ELSE fits_clear_errmsg(TooMany(print_hints_file(ErrToFile(m1, out), out, code)))

wrterr(m, out, severity, code) ==
    LET c == m.ctx
        m1 == [m EXCEPT !.ctx.nerrs = @ + 1]
    IN  IF c.maxerrors_reached # 0
        THEN fits_clear_errmsg([m EXCEPT !.ctx = FV_HINT_CLEAR(c)])
        ELSE IF severity < c.err_report
        THEN fits_clear_errmsg([m EXCEPT !.ctx = FV_HINT_CLEAR(c)])
        ELSE IF c.output_fn # "NULL"
        THEN fits_clear_errmsg(TooMany(dispatch_msg(m1, SeverityOf(severity), code, ErrPrefix)))
        ELSE fits_clear_errmsg(TooMany(print_hints_file(ErrToFile(m1, out), out, code)))

wrtferr(m, out, severity, code) ==
    LET c == m.ctx
        m1 == [m EXCEPT !.ctx.nerrs = @ + 1]
    IN  IF c.maxerrors_reached # 0
        THEN fits_clear_errmsg([m EXCEPT !.ctx = FV_HINT_CLEAR(c), !.status = 0])
        ELSE IF severity < c.err_report
        THEN fits_clear_errmsg([m EXCEPT !.ctx = FV_HINT_CLEAR(c)])
        ELSE IF c.output_fn # "NULL"
        THEN TooMany(fits_clear_errmsg(
                 [dispatch_msg(m1, SeverityOf(severity), code, ErrPrefix) EXCEPT !.status = 0]))
        ELSE TooMany(fits_clear_errmsg(
                 [print_hints_file(ErrToFile(m1, out), out, code) EXCEPT !.status = 0]))

RECURSIVE DispatchStack(_, _)
(* the loop of wrtserr that hands the captured stack lines to the callback *)
DispatchStack(m, n) ==
    IF n = 0 THEN m
    ELSE dispatch_msg(DispatchStack(m, n - 1), FV_MSG_INFO, FV_OK, "stack")

RECURSIVE StackLines(_, _)
(* the fprintf loop of wrtserr over tmp[0..n] *)
StackLines(stream, n) ==
    IF n < 0 THEN <<>>
    ELSE Append(StackLines(stream, n - 1), Line(stream, "stack", NullText))

Min(a, b) == IF a < b THEN a ELSE b

wrtserr(m, out, severity, code) ==
    LET c == m.ctx
        nstack == Min(m.errstack, StackCap)
        m1 == [m EXCEPT !.ctx.nerrs = @ + 1, !.errstack = @ - nstack]
        toFile == IF out # "NULL"
                  THEN LET a == IF IsRegular(out)
                                THEN [print_fmt(m1, out, ErrPrefix) EXCEPT
                                         !.delivered = @ \o StackLines(out, nstack)]
                                ELSE m1
                       IN  [print_fmt(a, "stderr", ErrPrefix) EXCEPT
                               !.delivered = @ \o StackLines("stderr", nstack)]
                  ELSE m1
    IN  IF c.maxerrors_reached # 0
        THEN fits_clear_errmsg([m EXCEPT !.ctx = FV_HINT_CLEAR(c), !.status = 0])
        ELSE IF severity < c.err_report
        THEN fits_clear_errmsg([m EXCEPT !.ctx = FV_HINT_CLEAR(c)])
        ELSE IF c.output_fn # "NULL"
        THEN TooMany(fits_clear_errmsg(
                 [DispatchStack(dispatch_msg(m1, SeverityOf(severity), code, ErrPrefix),
                                nstack) EXCEPT !.status = 0]))
        ELSE TooMany(fits_clear_errmsg(
                 [print_hints_file(toFile, out, code) EXCEPT !.status = 0]))

(* ---- fvrf_file.c: per-file bookkeeping --------------------------------- *)
HduName == [errnum |-> 0, wrnno |-> 0]

(* the directory is allocated; a directory still held is lost *)
init_hduname(c) ==
    [c EXCEPT !.hduname = [i \in 1..c.totalhdu |-> HduName],
              !.leaked = IF c.hduname_ptr = "live" THEN @ + 1 ELSE @,
              !.hduname_ptr = "live"]

set_hduerr(c, hdunum) ==
    reset_err_wrn([c EXCEPT !.hduname[hdunum] =
                       [errnum |-> c.nerrs, wrnno |-> c.nwrns]])

RECURSIVE SumErr(_, _)
SumErr(h, n) == IF n = 0 THEN 0 ELSE SumErr(h, n - 1) + h[n].errnum

RECURSIVE SumWrn(_, _)
SumWrn(h, n) == IF n = 0 THEN 0 ELSE SumWrn(h, n - 1) + h[n].wrnno

(* total_errors without the count of the file-level checks *)
total_errors_hdus(c) ==
    IF c.totalhdu = 0 THEN [toterr |-> 1, totwrn |-> 0]
    ELSE [toterr |-> SumErr(c.hduname, c.totalhdu),
          totwrn |-> SumWrn(c.hduname, c.totalhdu)]

total_errors(c) ==
    IF c.totalhdu = 0 THEN [toterr |-> 1, totwrn |-> 0]
    ELSE [toterr |-> SumErr(c.hduname, c.totalhdu) + c.nerrs,
          totwrn |-> SumWrn(c.hduname, c.totalhdu) + c.nwrns]

(* update_parfile storing the counts of the file in place of the sums *)
update_parfile_last(c, nerr, nwrn) ==
    [c EXCEPT !.totalerr = nerr, !.totalwrn = nwrn]

update_parfile(c, nerr, nwrn) ==
    [c EXCEPT !.totalerr = @ + nerr, !.totalwrn = @ + nwrn]

(* destroy_hduname leaving the directory allocated *)
destroy_hduname_keep(c) == [c EXCEPT !.hduname = <<>>]

(* the entries and the array are freed; the pointer keeps its value *)
destroy_hduname(c) == [c EXCEPT !.hduname = <<>>, !.hduname_ptr = "dangling"]

RECURSIVE WrtoutN(_, _, _, _)
WrtoutN(m, out, mess, n) ==
    IF n = 0 THEN m ELSE wrtout(WrtoutN(m, out, mess, n - 1), out, mess)

(* wrtsep, blank, heading, one line per HDU, the end-of-file line, blank *)
hdus_summary(m, out) ==
    LET c == m.ctx
        eof == IF c.nwrns # 0 \/ c.nerrs # 0 THEN 1 ELSE 0
    IN  wrtout(WrtoutN(WrtoutN(m, out, "summary", 3), out, "hdu", c.totalhdu + eof),
               out, " ")

(* the tail of close_report: the totals t go to the context, the closing *)
(* line is written, the parameter file is updated, the directory freed  *)
StoreTotals(m, out, t) ==
    [wrtout([m EXCEPT !.ctx.file_total_warn = t.totwrn,
                      !.ctx.file_total_err = t.toterr],
            out, "**** Verification found")
       EXCEPT !.ctx = destroy_hduname(update_parfile(@, t.toterr, t.totwrn))]

ReportTotals(m, out) == StoreTotals(m, out, total_errors(m.ctx))

close_report(m, out) ==
    ReportTotals(IF m.ctx.prstat # 0 THEN hdus_summary(m, out) ELSE m, out)

init_report(m, out) ==
    LET m1 == wrtout(wrtout(m, out, "Header-Data Units in this file."), out, " ")
    IN  [m1 EXCEPT !.ctx = init_hduname(reset_err_wrn(m1.ctx))]

get_total_err(c) == c.file_total_err
get_total_warn(c) == c.file_total_warn

(* ---- state ------------------------------------------------------------- *)
VARIABLES
    ctx,        \* the fv_context of the verification
    ctx_hint,   \* the function-static fv_hint of fv_generate_hint
    errstack,   \* number of messages on the reader's error stack
    out,        \* the FILE* argument of the running verification
    pc,         \* position of the driver
    hdu,        \* index of the driver's HDU loop
    defects,    \* defective items of the file met so far
    result,     \* the fv_result and status returned by verify_*
    delivered,  \* what the last step delivered to the sinks, in order
    last,       \* the call site of the last step and its arguments
    emitted,    \* terminal diagnostics delivered since the verification began
    threads,    \* the verifications run on concurrent threads, by context id
    counted,    \* errors and warnings counted since the verification began
    session     \* calls made on the context and the sums of their results

vars == <<ctx, ctx_hint, errstack, out, pc, hdu, defects, result, delivered, last,
          emitted, threads, counted, session>>

(* fv_context_new *)
fv_context_new(id) ==
    [id |-> id,
     prhead |-> 0, testdata |-> 1, testcsum |-> 1, testfill |-> 1,
     testhierarch |-> 0,
     prstat |-> 1, heasarc_conv |-> 1, err_report |-> 0,
     fix_hints |-> 0, explain |-> 0, totalhdu |-> 0,
     cards_ptr |-> "NULL", ttype_ptr |-> "NULL", leaked |-> 0,
     totalerr |-> 0, totalwrn |-> 0, nerrs |-> 0, nwrns |-> 0,
     hduname |-> <<>>, hduname_ptr |-> "NULL",
     file_total_err |-> 0, file_total_warn |-> 0,
     curhdu |-> 0,
     hint_keyword |-> "", hint_colnum |-> 0, hint_callsite |-> 0,
     hint_fix_buf |-> EmptyBuf, hint_explain_buf |-> EmptyBuf,
     maxerrors_reached |-> 0, output_fn |-> "NULL"]

(* fv_set_option / fv_set_output applied before the verification starts *)
Configure(c, o) ==
    [c EXCEPT !.err_report = o.err_report, !.heasarc_conv = o.heasarc_conv,
              !.fix_hints = o.fix_hints, !.explain = o.explain,
              !.output_fn = o.output_fn]

(* the option settings explored: the severity filter with hints off, and   *)
(* the hint options with the filter at its default                        *)
OptionProfiles ==
    {o \in [err_report : 0..2, heasarc_conv : {0, 1}, fix_hints : {0, 1},
            explain : {0, 1}, output_fn : {"NULL", "callback"}] :
        \/ o.fix_hints = 0 /\ o.explain = 0 /\ o.heasarc_conv = 1
        \/ o.err_report = 0 /\ o.heasarc_conv = 1
        \/ o.err_report = 0 /\ o.fix_hints = 0 /\ o.explain = 0}

(* the FILE arguments explored with a context: a callback ignores the    *)
(* stream, and the hint lines go where the error lines go                *)
Outs(c) ==
    CASE c.output_fn # "NULL" -> {"NULL"}
      [] c.fix_hints # 0 \/ c.explain # 0 -> {"file"}
      [] c.err_report # 0 \/ c.heasarc_conv = 0 -> {"file"}
      [] OTHER -> OutKinds

NoResult == [num_errors |-> NoField, num_warnings |-> NoField,
             num_hdus |-> NoField, aborted |-> NoField, status |-> NoField]

Call(site, op, severity, code, isheasarc, annotated, status, late, n) ==
    [site |-> site, op |-> op, severity |-> severity, code |-> code,
     isheasarc |-> isheasarc, annotated |-> annotated, status |-> status,
     late |-> late, n |-> n]

NoCall(site) == Call(site, "none", 0, FV_OK, 0, FALSE, 0, 0, 0)

NoneCounted == [err |-> 0, wrn |-> 0]
NoSession == [calls |-> 0, errs |-> 0, wrns |-> 0, sets |-> 0, fn |-> "NULL",
              invoked |-> 0]

Init ==
    /\ \E o \in OptionProfiles : ctx = Configure(fv_context_new(1), o)
    /\ ctx_hint = NoHint
    /\ errstack = 0
    /\ out = "NULL"
    /\ pc = "idle"
    /\ hdu = 0
    /\ defects = 0
    /\ result = NoResult
    /\ delivered = <<>>
    /\ last = NoCall("fv_context_new")
    /\ emitted = 0
    /\ threads = <<>>
    /\ counted = NoneCounted
    /\ session = NoSession

(* the pipeline state a step starts from, and the step's effect *)
M0 == [ctx |-> ctx, ctx_hint |-> ctx_hint, delivered |-> <<>>,
       errstack |-> errstack, status |-> 0, late |-> 0]

(* how many of the messages in d are the terminal diagnostic *)
Terminals(d) == Cardinality({i \in 1..Len(d) : d[i].text = TooManyText})

Commit(m, before) ==
    /\ ctx' = m.ctx
    /\ ctx_hint' = m.ctx_hint
    /\ errstack' = m.errstack
    /\ delivered' = m.delivered
    /\ emitted' = before + Terminals(m.delivered)
    /\ UNCHANGED <<threads, session>>

(* the tally after a step that took the counters from c to d *)
Tally(t, c, d) ==
    [err |-> t.err + (d.nerrs - c.nerrs), wrn |-> t.wrn + (d.nwrns - c.nwrns)]

Aborted == ctx.maxerrors_reached # 0

(* one validation check is being performed: note whether the abort flag is *)
(* already set at that moment                                              *)
Check(m) ==
    [m EXCEPT !.late = IF m.ctx.maxerrors_reached # 0 THEN @ + 1 ELSE @]

(* the reader fails: it sets its status and pushes n stack messages *)
ReaderFails(m, n) == [m EXCEPT !.status = 1, !.errstack = n]

(* ---- card parser and keyword checkers ---------------------------------- *)
Cards == {"ok", "too_long", "not_justified"}
KeyTypes == {"STR_KEY", "INT_KEY", "UNKNOWN"}

fits_parse_card(m, o, card, kname) ==
    IF card = "too_long"
    THEN wrterr(m, o, 1, FV_ERR_CARD_TOO_LONG)
    ELSE LET m1 == [m EXCEPT !.ctx = FV_HINT_SET_KEYWORD(@, kname)]
         IN  IF card = "not_justified"
             THEN wrterr(m1, o, 1, FV_ERR_NAME_NOT_JUSTIFIED)
             ELSE m1

check_str(m, o, kname, ktype) ==
    LET m1 == [m EXCEPT !.ctx = FV_HINT_SET_KEYWORD(@, kname)]
    IN  CASE ktype = "UNKNOWN" -> wrterr(m1, o, 1, FV_ERR_NULL_VALUE)
          [] ktype = "STR_KEY" -> m1
          [] OTHER ->
               wrterr([m1 EXCEPT !.ctx = FV_HINT_SET_EXPLAIN(
                                   FV_HINT_SET_FIX(@, FV_ERR_WRONG_TYPE, kname, 0),
                                   FV_ERR_WRONG_TYPE, kname, 0)],
                      o, 1, FV_ERR_WRONG_TYPE)

check_fixed_int(m, o, kname, fixed) ==
    LET m1 == [m EXCEPT !.ctx = FV_HINT_SET_KEYWORD(@, kname)]
    IN  IF fixed
        THEN m1
        ELSE print_fmt(print_fmt(wrterr(m1, o, 1, FV_ERR_NOT_FIXED_FORMAT),
                                 o, "card"), o, "arrow")

(* the card ingest of the header validator: n cards of the same kind *)
RECURSIVE ReadCards(_, _, _, _, _)
ReadCards(m, o, card, kname, n) ==
    CASE n = 0 -> m
      [] n = 1 -> fits_parse_card(Check(m), o, card, kname)
      [] OTHER -> LET first == ReadCards(m, o, card, kname, n \div 2)
                  IN  IF first.late >= 0
                      THEN ReadCards(first, o, card, kname, n - (n \div 2))
                      ELSE first

(* a convention warning of the header validator *)
test_header(m, o, isheasarc) ==
    wrtwrn([m EXCEPT !.ctx = FV_HINT_SET_KEYWORD(@, "XKEY")], o, isheasarc,
           FV_WARN_DEPRECATED)

(* ---- data validator ---------------------------------------------------- *)
Sums == {"ok", "data_bad", "fail"}

test_checksum(m, o, sum) ==
    CASE sum = "fail" -> wrtferr(ReaderFails(m, 0), o, 2, FV_ERR_CFITSIO)
      [] sum = "ok" -> m
      [] OTHER -> wrtwrn(m, o, 0, FV_WARN_BAD_CHECKSUM)

(* one batch: the columns i..n in turn, those in bad holding a bit vector *)
(* that is not left justified                                             *)
RECURSIVE iterdata(_, _, _, _, _)
iterdata(m, o, bad, i, n) ==
    IF i > n
    THEN m
    ELSE LET m1 == Check([m EXCEPT !.ctx = FV_HINT_SET_COLNUM(@, i)])
             m2 == IF i \in bad
                   THEN print_fmt(wrterr(m1, o, 2, FV_ERR_BIT_NOT_JUSTIFIED),
                                  o, "other rows")
                   ELSE m1
         IN  iterdata(m2, o, bad, i + 1, n)

(* one row of the descriptor loop of test_data: the column is noted in   *)
(* the hint context; a length beyond 32 bits in a P column is warned of  *)
(* once (largeVarLengthWarned); then the length is compared with maxlen, *)
(* the call site writing the fix and the explanation itself              *)
Descriptor(m, o, jl, wide) ==
    wrterr([(IF wide /\ jl = 1
             THEN wrtwrn(Check([m EXCEPT !.ctx = FV_HINT_SET_COLNUM(@, 1)]),
                         o, 0, FV_WARN_VAR_EXCEEDS_32BIT)
             ELSE Check([m EXCEPT !.ctx = FV_HINT_SET_COLNUM(@, 1)]))
              EXCEPT !.ctx = FV_HINT_SET_EXPLAIN(
                                 FV_HINT_SET_FIX(@, FV_ERR_VAR_EXCEEDS_MAXLEN, "", 1),
                                 FV_ERR_VAR_EXCEEDS_MAXLEN, "", 1)],
           o, 1, FV_ERR_VAR_EXCEEDS_MAXLEN)

RECURSIVE RowLoop_nobreak(_, _, _, _, _)
(* the descriptor loop without its break on the abort flag *)
RowLoop_nobreak(m, o, jl, nbad, wide) ==
    IF jl > nbad
    THEN m
    ELSE RowLoop_nobreak(Descriptor(m, o, jl, wide), o, jl + 1, nbad, wide)

(* the descriptor loop of test_data over one variable-length column whose *)
(* first nbad rows hold more elements than TFORM allows, wide telling     *)
(* whether their length also exceeds 32 bits                              *)
RECURSIVE RowLoop(_, _, _, _, _)
RowLoop(m, o, jl, nbad, wide) ==
    IF jl > nbad \/ m.ctx.maxerrors_reached # 0
    THEN m
    ELSE RowLoop(Descriptor(m, o, jl, wide), o, jl + 1, nbad, wide)

(* ---- file-level validator ---------------------------------------------- *)
Ends == {"clean", "extra_bytes"}

test_end(m, o, end) ==
    CASE end = "extra_bytes" ->
             wrtout(wrterr(wrtout(Check(m), o, "< End-of-File >"), o, 2,
                           FV_ERR_EXTRA_BYTES), o, " ")
      [] OTHER -> Check(m)

(* ---- driver ------------------------------------------------------------ *)
(* the early exit: the failure is the file's one error, in the per-file  *)
(* counters and in the totals of the session                            *)
leave_early(m, o) ==
    [m EXCEPT !.ctx = update_parfile([@ EXCEPT !.file_total_err = 1,
                                               !.file_total_warn = 0], 1, 0)]

(* the result filled in without the abort flag *)
Result_noabort(c, vfstatus) ==
    [num_errors |-> IF vfstatus # 0 THEN 1 ELSE get_total_err(c),
     num_warnings |-> IF vfstatus # 0 THEN 0 ELSE get_total_warn(c),
     num_hdus |-> c.totalhdu,
     aborted |-> IF vfstatus # 0 THEN 1 ELSE 0,
     status |-> vfstatus]

Result(c, vfstatus) ==
    IF vfstatus # 0
    THEN [num_errors |-> 1, num_warnings |-> 0, num_hdus |-> c.totalhdu,
          aborted |-> 1, status |-> vfstatus]
    ELSE [num_errors |-> get_total_err(c), num_warnings |-> get_total_warn(c),
          num_hdus |-> c.totalhdu, aborted |-> c.maxerrors_reached,
          status |-> vfstatus]

(* verify_fits up to its HDU loop: n is the number of HDUs the reader     *)
(* finds, 0 standing for a file it cannot open                            *)
Open(m, o, n, nstack) ==
    IF n = 0
    THEN leave_early(wrtserr(ReaderFails(m, nstack), o, 2,
                             FV_ERR_CFITSIO_STACK), o)
    ELSE init_report([m EXCEPT !.ctx.totalhdu = n], o)

(* the argument check returning 0 *)
Reject_zero(site) ==
    /\ pc' = "rejected"
    /\ result' = [NoResult EXCEPT !.status = 0]
    /\ last' = Call(site, "invalid", 0, FV_OK, 0, FALSE, 0, 0, 0)
    /\ delivered' = <<>>
    /\ UNCHANGED <<ctx, ctx_hint, errstack, out, hdu, defects, emitted, threads,
                   counted, session>>

(* the argument check of verify_*: nothing is touched, not even the result *)
Reject(site) ==
    /\ pc' = "rejected"
    /\ result' = [NoResult EXCEPT !.status = 0 - 1]
    /\ last' = Call(site, "invalid", 0, FV_OK, 0, FALSE, 0 - 1, 0, 0)
    /\ delivered' = <<>>
    /\ UNCHANGED <<ctx, ctx_hint, errstack, out, hdu, defects, emitted, threads,
                   counted, session>>

Begin(m, o, n, site) ==
    /\ Commit(m, 0)
    /\ out' = o
    /\ hdu' = IF n = 0 THEN 0 ELSE 1
    /\ UNCHANGED defects
    /\ counted' = IF n = 0 THEN Tally(NoneCounted, ctx, m.ctx)
                  ELSE Tally(NoneCounted, reset_err_wrn(ctx), m.ctx)
    /\ pc' = IF n = 0 THEN "done" ELSE "loop"
    /\ result' = IF n = 0
                 THEN [Result(m.ctx, 1) EXCEPT
                          !.num_hdus = IF site = "fv_verify_memory" THEN 0 ELSE @]
                 ELSE NoResult
    /\ last' = IF n = 0
               THEN Call(site, "reader_err_with_stack", 2, FV_ERR_CFITSIO_STACK,
                         0, FALSE, 1, m.late, 1)
               ELSE NoCall(site)

fv_verify_file ==
    /\ pc = "idle"
    /\ \E infile \in Paths :
         IF infile = "NULL"
         THEN Reject("fv_verify_file")
         ELSE \E o \in Outs(ctx), n \in 0..MaxHdu, nstack \in 1..MaxStack :
                LET c0 == [ctx EXCEPT !.file_total_err = 0, !.file_total_warn = 0,
                                      !.maxerrors_reached = 0]
                    m0 == wrtout(wrtout([M0 EXCEPT !.ctx = c0], o, " "), o, "File:")
                IN  Begin(Open(m0, o, n, nstack), o, n, "fv_verify_file")

fv_verify_memory ==
    /\ pc = "idle"
    /\ \E buffer \in Buffers, size \in Sizes :
         IF buffer = "NULL" \/ size = 0
         THEN Reject("fv_verify_memory")
         ELSE \E o \in Outs(ctx), n \in 0..MaxHdu, nstack \in 1..MaxStack :
                LET c0 == [ctx EXCEPT !.file_total_err = 0, !.file_total_warn = 0,
                                      !.totalhdu = 0, !.maxerrors_reached = 0]
                    m0 == wrtout(wrtout([M0 EXCEPT !.ctx = c0], o, " "), o, "File:")
                IN  Begin(Open(m0, o, n, nstack), o, n, "fv_verify_memory")

Quiet(site) ==
    /\ delivered' = <<>>
    /\ last' = NoCall(site)
    /\ UNCHANGED <<ctx_hint, errstack, out, defects, result, emitted, threads,
                   counted, session>>

(* init_hdu: the card array and the column-name arrays of the HDU *)
init_hdu(c) ==
    [c EXCEPT !.leaked = @ + (IF c.cards_ptr = "live" THEN 1 ELSE 0)
                           + (IF c.ttype_ptr = "live" THEN 1 ELSE 0),
              !.cards_ptr = "live", !.ttype_ptr = "live"]

(* close_hdu: every inner array is released, whatever was found *)
close_hdu(c) == [c EXCEPT !.cards_ptr = "NULL", !.ttype_ptr = "NULL"]

(* loop head: the abort flag is looked at before each HDU *)
NextHdu ==
    /\ pc = "loop"
    /\ ~Aborted
    /\ hdu <= ctx.totalhdu
    /\ ctx' = init_hdu([ctx EXCEPT !.curhdu = hdu])
    /\ pc' = "cards"
    /\ hdu' = hdu
    /\ Quiet("verify_fits")

LeaveLoop ==
    /\ pc = "loop"
    /\ Aborted \/ hdu > ctx.totalhdu
    /\ pc' = "end"
    /\ UNCHANGED <<ctx, hdu>>
    /\ Quiet("verify_fits")

(* a step of a validator: the calls it made and what they did *)
Step(m, site, op, severity, code, isheasarc, annotated, n, to, d) ==
    /\ defects + d <= MaxDefects
    /\ defects' = defects + d
    /\ Commit(m, emitted)
    /\ last' = Call(site, op, severity, code, isheasarc, annotated, m.status,
                    m.late, n)
    /\ pc' = to
    /\ counted' = Tally(counted, ctx, m.ctx)
    /\ UNCHANGED <<out, hdu, result>>

ParseCard ==
    /\ pc = "cards"
    /\ \E card \in Cards, kname \in Keywords, n \in CardLoads :
         /\ card # "not_justified" => n = 1
         /\ card # "ok" => kname = "XKEY"
         /\ Step(ReadCards(M0, out, card, kname, n), "fits_parse_card",
              IF card = "ok" THEN "none" ELSE "err", 1,
              CASE card = "too_long" -> FV_ERR_CARD_TOO_LONG
                [] card = "not_justified" -> FV_ERR_NAME_NOT_JUSTIFIED
                [] OTHER -> FV_OK,
              0, card = "not_justified", IF card = "ok" THEN 0 ELSE n, "keys",
                 IF card = "ok" THEN 0 ELSE 1)

CheckStr ==
    /\ pc = "keys"
    /\ \E kname \in Keywords, ktype \in KeyTypes :
         Step(check_str(Check(M0), out, kname, ktype), "check_str",
              IF ktype = "STR_KEY" THEN "none" ELSE "err", 1,
              CASE ktype = "UNKNOWN" -> FV_ERR_NULL_VALUE
                [] ktype = "STR_KEY" -> FV_OK
                [] OTHER -> FV_ERR_WRONG_TYPE,
              0, ktype # "STR_KEY", IF ktype = "STR_KEY" THEN 0 ELSE 1, "data",
              IF ktype = "STR_KEY" THEN 0 ELSE 1)

CheckFixedInt ==
    /\ pc = "keys"
    /\ \E fixed \in BOOLEAN :
         Step(check_fixed_int(Check(M0), out, "BITPIX", fixed), "check_fixed_int",
              IF fixed THEN "none" ELSE "err", 1,
              IF fixed THEN FV_OK ELSE FV_ERR_NOT_FIXED_FORMAT,
              0, ~fixed, IF fixed THEN 0 ELSE 1, "data",
              IF fixed THEN 0 ELSE 1)

TestHeader ==
    /\ pc = "keys"
    /\ \E isheasarc \in {0, 1} :
         Step(test_header(Check(M0), out, isheasarc), "test_header",
              "warn", 0, FV_WARN_DEPRECATED, isheasarc, TRUE, 1, "data", 1)

HeaderDone ==
    /\ pc = "keys"
    /\ pc' = "data"
    /\ UNCHANGED <<ctx, hdu>>
    /\ Quiet("test_hdu")

(* test_data, in its stages *)
TestChecksum ==
    /\ pc = "data"
    /\ \E sum \in Sums :
         Step(test_checksum(Check(M0), out, sum), "test_checksum",
              CASE sum = "fail" -> "reader_err" [] sum = "ok" -> "none"
                [] OTHER -> "warn",
              IF sum = "fail" THEN 2 ELSE 0,
              CASE sum = "fail" -> FV_ERR_CFITSIO [] sum = "ok" -> FV_OK
                [] OTHER -> FV_WARN_BAD_CHECKSUM,
              0, FALSE, IF sum = "ok" THEN 0 ELSE 1,
              IF hdu = 1 THEN "close" ELSE "iterate",
              IF sum = "ok" THEN 0 ELSE 1)

IterData ==
    /\ pc = "iterate"
    /\ \E bad \in SUBSET (1..MaxCols) :
         Step(iterdata(M0, out, bad, 1, MaxCols), "iterdata",
              IF bad = {} THEN "none" ELSE "err", 2,
              IF bad = {} THEN FV_OK ELSE FV_ERR_BIT_NOT_JUSTIFIED,
              0, TRUE, Cardinality(bad), "iterated", Cardinality(bad))

IterateFails ==
    /\ pc = "iterated"
    /\ \E nstack \in 1..MaxStack :
         Step(wrtserr(ReaderFails(M0, nstack), out, 2, FV_ERR_CFITSIO_STACK),
              "test_data", "reader_err_with_stack", 2, FV_ERR_CFITSIO_STACK,
              0, FALSE, 1, "rows", 1)

IterateDone ==
    /\ pc = "iterated"
    /\ pc' = "rows"
    /\ UNCHANGED <<ctx, hdu>>
    /\ Quiet("test_data")

Rows ==
    /\ pc = "rows"
    /\ \E nbad \in 0..1, wide \in BOOLEAN :
         /\ wide => nbad = 1
         /\ Step(RowLoop(M0, out, 1, nbad, wide), "test_data",
                 IF nbad = 0 THEN "none" ELSE IF wide THEN "warn_err" ELSE "err", 1,
                 IF nbad = 0 THEN FV_OK ELSE FV_ERR_VAR_EXCEEDS_MAXLEN,
                 0, TRUE, nbad, "close", nbad)

(* end of the HDU: the counters go to the directory and start again *)
CloseHdu ==
    /\ pc = "close"
    /\ ctx' = close_hdu(set_hduerr(ctx, hdu))
    /\ hdu' = hdu + 1
    /\ pc' = "loop"
    /\ Quiet("close_hdu")

TestEnd ==
    /\ pc = "end"
    /\ \E end \in Ends :
         Step(test_end(M0, out, end), "test_end",
              IF end = "clean" THEN "none" ELSE "err", 2,
              IF end = "clean" THEN FV_OK ELSE FV_ERR_EXTRA_BYTES,
              0, FALSE, IF end = "clean" THEN 0 ELSE 1, "report",
              IF end = "clean" THEN 0 ELSE 1)

(* close_report, and verify_* filling in the result *)
Return ==
    /\ pc = "report"
    /\ \E m \in {close_report(M0, out)} :
         /\ Commit(m, emitted)
         /\ result' = Result(m.ctx, 0)
    /\ last' = NoCall("close_report")
    /\ pc' = "done"
    /\ UNCHANGED <<out, hdu, defects, counted>>

(* what free() leaves of a pointer: a pointer already freed by           *)
(* destroy_hduname is read and freed again, which the allocator may let  *)
(* pass or may trap                                                      *)
Freed(ptr) ==
    CASE ptr = "NULL" -> {"NULL"}
      [] ptr = "live" -> {"freed"}
      [] OTHER -> {"freed", "trap"}

fv_context_free ==
    /\ pc \in {"idle", "done", "rejected"}
    /\ \E h \in Freed(ctx.hduname_ptr) :
         ctx' = [ctx EXCEPT !.hduname_ptr = h,
                            !.cards_ptr = IF @ = "NULL" THEN @ ELSE "freed",
                            !.ttype_ptr = IF @ = "NULL" THEN @ ELSE "freed"]
    /\ pc' = "freed"
    /\ hdu' = hdu
    /\ Quiet("fv_context_free")

Next ==
    \/ fv_context_free
    \/ fv_verify_file
    \/ fv_verify_memory
    \/ NextHdu
    \/ LeaveLoop
    \/ ParseCard
    \/ CheckStr
    \/ CheckFixedInt
    \/ TestHeader
    \/ HeaderDone
    \/ TestChecksum
    \/ IterData
    \/ IterateFails
    \/ IterateDone
    \/ Rows
    \/ CloseHdu
    \/ TestEnd
    \/ Return

Spec == Init /\ [][Next]_vars

(* ---- two verifications on concurrent threads ---------------------------- *)
(* Each thread drives its own context through wrterr in callback mode; the *)
(* steps are the statements of dispatch_msg and fv_generate_hint that      *)
(* touch the function-static ctx_hint.  The variables of the single        *)
(* verification above stay as they are.                                    *)
Tids == {1, 2}
HintProfiles == {[fix_hints |-> 1, explain |-> 0], [fix_hints |-> 0, explain |-> 1],
                 [fix_hints |-> 1, explain |-> 1]}
CatalogPtr == [buf |-> "catalog", owner |-> 0]

Thread(id, o) ==
    [ctx |-> [fv_context_new(id) EXCEPT !.fix_hints = o.fix_hints,
                                        !.explain = o.explain,
                                        !.output_fn = "callback"],
     pc |-> "idle", code |-> FV_OK, h |-> "null",
     msg |-> [fix_hint |-> NullPtr, explain |-> NullPtr],
     delivered |-> <<>>, sent |-> 0]

InitMT ==
    /\ ctx = fv_context_new(0)
    /\ ctx_hint = NoHint
    /\ errstack = 0
    /\ out = "NULL"
    /\ pc = "idle"
    /\ hdu = 0
    /\ defects = 0
    /\ result = NoResult
    /\ delivered = <<>>
    /\ last = NoCall("fv_context_new")
    /\ emitted = 0
    /\ counted = NoneCounted
    /\ session = NoSession
    /\ \E o1 \in HintProfiles, o2 \in HintProfiles :
          threads = [t \in Tids |-> Thread(t, IF t = 1 THEN o1 ELSE o2)]

Single == <<ctx, errstack, out, pc, hdu, defects, result, delivered, last, emitted,
           counted, session>>

(* a call site annotates and calls wrterr, which counts the error and      *)
(* enters dispatch_msg                                                     *)
MT_wrterr(t) ==
    /\ threads[t].pc = "idle"
    /\ threads[t].sent < MaxMsgs
    /\ \E kw \in Keywords \cup {""} :
          threads' = [threads EXCEPT
                         ![t].ctx = [FV_HINT_SET_KEYWORD(@, kw) EXCEPT !.nerrs = @ + 1],
                         ![t].code = FV_ERR_NULL_VALUE,
                         ![t].msg = [fix_hint |-> NullPtr, explain |-> NullPtr],
                         ![t].pc = "generate"]
    /\ UNCHANGED <<ctx_hint, Single>>

(* fv_generate_hint up to its stores into ctx_hint *)
MT_generate(t) ==
    /\ threads[t].pc = "generate"
    /\ LET g == fv_generate_hint(threads[t].ctx, ctx_hint, threads[t].code)
       IN  threads' = [threads EXCEPT
                          ![t].ctx = g.ctx,
                          ![t].h = g.h,
                          ![t].pc = IF g.h = "ctx_hint" THEN "store_fix"
                                    ELSE "attach_fix"]
    /\ UNCHANGED <<ctx_hint, Single>>

(* ctx_hint.fix_hint = ... *)
MT_store_fix(t) ==
    /\ threads[t].pc = "store_fix"
    /\ ctx_hint' = [ctx_hint EXCEPT !.fix_hint = BufPtr(threads[t].ctx, "fix_buf")]
    /\ threads' = [threads EXCEPT ![t].pc = "store_explain"]
    /\ UNCHANGED Single

(* ctx_hint.explain = ...; return &ctx_hint *)
MT_store_explain(t) ==
    /\ threads[t].pc = "store_explain"
    /\ ctx_hint' = [ctx_hint EXCEPT !.explain = BufPtr(threads[t].ctx, "explain_buf")]
    /\ threads' = [threads EXCEPT ![t].pc = "attach_fix"]
    /\ UNCHANGED Single

(* what h->fix_hint / h->explain holds when a thread loads it *)
Load(t, field) ==
    CASE threads[t].h = "ctx_hint" -> ctx_hint[field]
      [] threads[t].h = "static" -> CatalogPtr
      [] OTHER -> NullPtr

(* if (ctx->fix_hints) msg.fix_hint = h->fix_hint *)
MT_attach_fix(t) ==
    /\ threads[t].pc = "attach_fix"
    /\ threads' = [threads EXCEPT
                      ![t].msg.fix_hint = IF threads[t].h # "null"
                                             /\ threads[t].ctx.fix_hints # 0
                                          THEN Load(t, "fix_hint") ELSE @,
                      ![t].pc = "attach_explain"]
    /\ UNCHANGED <<ctx_hint, Single>>

(* if (ctx->explain) msg.explain = h->explain *)
MT_attach_explain(t) ==
    /\ threads[t].pc = "attach_explain"
    /\ threads' = [threads EXCEPT
                      ![t].msg.explain = IF threads[t].h # "null"
                                            /\ threads[t].ctx.explain # 0
                                         THEN Load(t, "explain") ELSE @,
                      ![t].pc = "callback"]
    /\ UNCHANGED <<ctx_hint, Single>>

(* the text a hint pointer of a message refers to when the callback reads *)
Deref(p, code, field) ==
    CASE p.buf = "NULL" -> NullText
      [] p.buf = "catalog" -> fv_get_hint(code)[field]
      [] p.buf = "fix_buf" -> threads[p.owner].ctx.hint_fix_buf
      [] OTHER -> threads[p.owner].ctx.hint_explain_buf

(* ctx->output_fn(&msg, ...); FV_HINT_CLEAR(ctx) *)
MT_callback(t) ==
    /\ threads[t].pc = "callback"
    /\ LET th == threads[t]
           x == Msg("callback", FV_MSG_ERROR, th.code, th.ctx.curhdu, ErrPrefix,
                    Deref(th.msg.fix_hint, th.code, "fix_hint"),
                    Deref(th.msg.explain, th.code, "explain"))
       IN  threads' = [threads EXCEPT ![t].ctx = FV_HINT_CLEAR(@),
                                      ![t].delivered = <<x>>,
                                      ![t].sent = @ + 1,
                                      ![t].pc = "idle"]
    /\ UNCHANGED <<ctx_hint, Single>>

NextMT ==
    \E t \in Tids :
        \/ MT_wrterr(t)
        \/ MT_generate(t)
        \/ MT_store_fix(t)
        \/ MT_store_explain(t)
        \/ MT_attach_fix(t)
        \/ MT_attach_explain(t)
        \/ MT_callback(t)

SpecMT == InitMT /\ [][NextMT]_vars

(* ---- a session: several calls of the public API on one context ---------- *)
(* Each action is one call of the API, run to its return.  A file is       *)
(* described by the number of HDUs the reader finds (0: it cannot be       *)
(* opened) and by what its last HDU holds.                                 *)
MaxCalls == 2
MaxSets == 2

FV_OPT_PRHEAD == 0
FV_OPT_PRSTAT == 1
FV_OPT_TESTDATA == 2
FV_OPT_TESTCSUM == 3
FV_OPT_TESTFILL == 4
FV_OPT_HEASARC_CONV == 5
FV_OPT_TESTHIERARCH == 6
FV_OPT_ERR_REPORT == 7
FV_OPT_FIX_HINTS == 8
FV_OPT_EXPLAIN == 9

Options == FV_OPT_PRHEAD..FV_OPT_EXPLAIN

(* the values an option is documented to take *)
Range(opt) == IF opt = FV_OPT_ERR_REPORT THEN 0..2 ELSE {0, 1}

(* fv_set_option storing every value in the field of the option before *)
fv_set_option_shifted(c, opt, value) ==
    CASE opt = FV_OPT_PRHEAD -> [ctx |-> [c EXCEPT !.prhead = value], ret |-> 0]
      [] opt = FV_OPT_PRSTAT -> [ctx |-> [c EXCEPT !.prhead = value], ret |-> 0]
      [] opt = FV_OPT_TESTDATA -> [ctx |-> [c EXCEPT !.prstat = value], ret |-> 0]
      [] opt = FV_OPT_TESTCSUM -> [ctx |-> [c EXCEPT !.testdata = value], ret |-> 0]
      [] opt = FV_OPT_TESTFILL -> [ctx |-> [c EXCEPT !.testcsum = value], ret |-> 0]
      [] opt = FV_OPT_HEASARC_CONV -> [ctx |-> [c EXCEPT !.testfill = value], ret |-> 0]
      [] opt = FV_OPT_TESTHIERARCH -> [ctx |-> [c EXCEPT !.heasarc_conv = value], ret |-> 0]
      [] opt = FV_OPT_ERR_REPORT -> [ctx |-> [c EXCEPT !.testhierarch = value], ret |-> 0]
      [] opt = FV_OPT_FIX_HINTS -> [ctx |-> [c EXCEPT !.err_report = value], ret |-> 0]
      [] opt = FV_OPT_EXPLAIN -> [ctx |-> [c EXCEPT !.fix_hints = value], ret |-> 0]
      [] OTHER -> [ctx |-> c, ret |-> 0 - 1]

fv_set_option(c, opt, value) ==
    CASE opt = FV_OPT_PRHEAD -> [ctx |-> [c EXCEPT !.prhead = value], ret |-> 0]
      [] opt = FV_OPT_PRSTAT -> [ctx |-> [c EXCEPT !.prstat = value], ret |-> 0]
      [] opt = FV_OPT_TESTDATA -> [ctx |-> [c EXCEPT !.testdata = value], ret |-> 0]
      [] opt = FV_OPT_TESTCSUM -> [ctx |-> [c EXCEPT !.testcsum = value], ret |-> 0]
      [] opt = FV_OPT_TESTFILL -> [ctx |-> [c EXCEPT !.testfill = value], ret |-> 0]
      [] opt = FV_OPT_HEASARC_CONV -> [ctx |-> [c EXCEPT !.heasarc_conv = value], ret |-> 0]
      [] opt = FV_OPT_TESTHIERARCH -> [ctx |-> [c EXCEPT !.testhierarch = value], ret |-> 0]
      [] opt = FV_OPT_ERR_REPORT -> [ctx |-> [c EXCEPT !.err_report = value], ret |-> 0]
      [] opt = FV_OPT_FIX_HINTS -> [ctx |-> [c EXCEPT !.fix_hints = value], ret |-> 0]
      [] opt = FV_OPT_EXPLAIN -> [ctx |-> [c EXCEPT !.explain = value], ret |-> 0]
      [] OTHER -> [ctx |-> c, ret |-> 0 - 1]

fv_get_option(c, opt) ==
    CASE opt = FV_OPT_PRHEAD -> c.prhead
      [] opt = FV_OPT_PRSTAT -> c.prstat
      [] opt = FV_OPT_TESTDATA -> c.testdata
      [] opt = FV_OPT_TESTCSUM -> c.testcsum
      [] opt = FV_OPT_TESTFILL -> c.testfill
      [] opt = FV_OPT_HEASARC_CONV -> c.heasarc_conv
      [] opt = FV_OPT_TESTHIERARCH -> c.testhierarch
      [] opt = FV_OPT_ERR_REPORT -> c.err_report
      [] opt = FV_OPT_FIX_HINTS -> c.fix_hints
      [] opt = FV_OPT_EXPLAIN -> c.explain
      [] OTHER -> 0 - 1

(* fv_set_output that registers a callback but never unregisters one *)
fv_set_output_sticky(c, fn) ==
    IF fn = "NULL" THEN c ELSE [c EXCEPT !.output_fn = fn]

fv_set_output(c, fn) == [c EXCEPT !.output_fn = fn]

fv_get_totals(c) == [total_errors |-> c.totalerr, total_warnings |-> c.totalwrn]

(* the files and FILE arguments of a session; a file that cannot be     *)
(* opened holds nothing, a file that can pushes nothing on the reader's *)
(* stack, and the file that floods the report with errors is verified   *)
(* in quiet mode                                                        *)
FileKinds == {"clean", "warn", "err", "flood"}
SessionFiles == [n : 0..MaxHdu, defect : FileKinds]
SessionOuts == {"NULL", "file"}
Explored(c, f, o, nstack) ==
    /\ f.n = 0 => f.defect = "clean"
    /\ f.n > 0 => nstack = 1
    /\ f.defect = "flood" => o = "NULL" /\ c.output_fn = "NULL"

(* the start of verify_*: the per-file state is reset and the heading of *)
(* the report written                                                    *)
Prologue(m, site, o) ==
    wrtout(wrtout([m EXCEPT !.ctx.file_total_err = 0,
                            !.ctx.file_total_warn = 0,
                            !.ctx.totalhdu =
                                IF site = "fv_verify_memory" THEN 0 ELSE @,
                            !.ctx.maxerrors_reached = 0], o, " "), o, "File:")

(* the checks of one HDU that holds the given defect *)
TestHdu(m, o, defect) ==
    CASE defect = "warn" -> test_header(Check(m), o, 0)
      [] defect = "err" -> check_str(Check(m), o, "XKEY", "UNKNOWN")
      [] defect = "flood" -> ReadCards(m, o, "too_long", "XKEY", MAXERRORS + 2)
      [] OTHER -> m

(* one turn of the HDU loop: init_hdu, the checks, close_hdu *)
VerifyHdu(m, o, i, defect) ==
    [TestHdu([m EXCEPT !.ctx = init_hdu([@ EXCEPT !.curhdu = i])], o, defect)
        EXCEPT !.ctx = close_hdu(set_hduerr(@, i))]

RECURSIVE HduLoop(_, _, _, _)
HduLoop(m, o, i, f) ==
    IF i > m.ctx.totalhdu \/ m.ctx.maxerrors_reached # 0
    THEN m
    ELSE HduLoop(VerifyHdu(m, o, i, IF i = m.ctx.totalhdu THEN f.defect ELSE "clean"),
                 o, i + 1, f)

(* verify_fits from the opening of the stream to close_report *)
verify_fits(m, o, f, nstack) ==
    IF f.n = 0
    THEN Open(m, o, 0, nstack)
    ELSE close_report(test_end(HduLoop(Open(m, o, f.n, nstack), o, 1, f),
                               o, "clean"), o)

(* the result verify_* fills in for a file of n HDUs *)
SessionResult(c, site, n) ==
    IF n = 0
    THEN [Result(c, 1) EXCEPT !.num_hdus = IF site = "fv_verify_memory" THEN 0 ELSE @]
    ELSE Result(c, 0)

Invocations(d) == Cardinality({i \in 1..Len(d) : d[i].sink = "callback"})

(* a context just created *)
InitOptions ==
    /\ ctx = fv_context_new(1)
    /\ ctx_hint = NoHint
    /\ errstack = 0
    /\ out = "NULL"
    /\ pc = "idle"
    /\ hdu = 0
    /\ defects = 0
    /\ result = NoResult
    /\ delivered = <<>>
    /\ last = NoCall("fv_context_new")
    /\ emitted = 0
    /\ threads = <<>>
    /\ counted = NoneCounted
    /\ session = NoSession

(* the option settings of a session: the defaults, errors only, and both *)
(* hint options on, each with and without a callback                    *)
SessionProfiles ==
    {o \in OptionProfiles :
        o.heasarc_conv = 1 /\ o.err_report <= 1 /\ o.fix_hints = o.explain}

(* a context created and configured *)
InitSession ==
    /\ \E o \in SessionProfiles :
          /\ ctx = Configure(fv_context_new(1), o)
          /\ session = [NoSession EXCEPT !.fn = o.output_fn]
    /\ ctx_hint = NoHint
    /\ errstack = 0
    /\ out = "NULL"
    /\ pc = "idle"
    /\ hdu = 0
    /\ defects = 0
    /\ result = NoResult
    /\ delivered = <<>>
    /\ last = NoCall("fv_context_new")
    /\ emitted = 0
    /\ threads = <<>>
    /\ counted = NoneCounted

(* what a call of the session leaves alone *)
Driver == <<pc, hdu, defects, emitted, threads, counted>>

(* a verification returns: its effect m on the context, its result res *)
Deliver(m, site, n, o, res) ==
    /\ ctx' = m.ctx
    /\ ctx_hint' = m.ctx_hint
    /\ errstack' = m.errstack
    /\ delivered' = m.delivered
    /\ out' = o
    /\ result' = res
    /\ session' = [session EXCEPT !.calls = @ + 1,
                                  !.errs = @ + res.num_errors,
                                  !.wrns = @ + res.num_warnings,
                                  !.invoked = IF Invocations(m.delivered) > 0 THEN 1 ELSE @]
    /\ last' = Call(site, "verify", 0, FV_OK, 0, FALSE, res.status, 0, n)
    /\ UNCHANGED Driver

S_verify ==
    /\ session.calls < MaxCalls
    /\ \E site \in VerifySites, f \in SessionFiles, o \in SessionOuts,
          nstack \in 1..MaxStack :
         /\ Explored(ctx, f, o, nstack)
         /\ \E m \in {verify_fits(Prologue(M0, site, o), o, f, nstack)} :
              Deliver(m, site, f.n, o, SessionResult(m.ctx, site, f.n))

(* a call whose arguments are rejected *)
S_reject ==
    /\ session.calls < MaxCalls
    /\ \E site \in VerifySites :
         /\ result' = [NoResult EXCEPT !.status = 0 - 1]
         /\ last' = Call(site, "invalid", 0, FV_OK, 0, FALSE, 0 - 1, 0, 0)
    /\ delivered' = <<>>
    /\ session' = [session EXCEPT !.calls = @ + 1]
    /\ UNCHANGED <<ctx, ctx_hint, errstack, out, Driver>>

S_set_option ==
    /\ session.sets < MaxSets
    /\ \E opt \in Options \cup {FV_OPT_EXPLAIN + 1} :
         \E value \in Range(opt) :
            \E r \in {fv_set_option(ctx, opt, value)} :
               /\ ctx' = r.ctx
               /\ last' = Call("fv_set_option", "set", 0, opt, 0, FALSE, r.ret, 0, value)
    /\ delivered' = <<>>
    /\ session' = [session EXCEPT !.sets = @ + 1]
    /\ UNCHANGED <<ctx_hint, errstack, out, result, Driver>>

(* fv_get_option, called after an option was set *)
S_get_option ==
    /\ last.site = "fv_set_option"
    /\ \E opt \in Options \cup {FV_OPT_EXPLAIN + 1} :
         last' = Call("fv_get_option", "get", 0, opt, 0, FALSE,
                      fv_get_option(ctx, opt), 0, 0)
    /\ delivered' = <<>>
    /\ UNCHANGED <<ctx, ctx_hint, errstack, out, result, session, Driver>>

S_set_output ==
    /\ \E fn \in {"NULL", "callback"} :
         /\ ctx' = fv_set_output(ctx, fn)
         /\ session' = [session EXCEPT !.fn = fn]
    /\ last' = NoCall("fv_set_output")
    /\ delivered' = <<>>
    /\ UNCHANGED <<ctx_hint, errstack, out, result, Driver>>

(* fv_get_totals, called after a verification *)
S_get_totals ==
    /\ last.site \in VerifySites
    /\ \E t \in {fv_get_totals(ctx)} :
         last' = Call("fv_get_totals", "get", 0, t.total_errors, 0, FALSE, 0, 0,
                      t.total_warnings)
    /\ delivered' = <<>>
    /\ UNCHANGED <<ctx, ctx_hint, errstack, out, result, session, Driver>>

NextSession ==
    \/ S_verify
    \/ S_reject
    \/ S_set_output
    \/ S_get_totals

SpecSession == InitSession /\ [][NextSession]_vars

(* the options of a context set and read back *)
NextOptions ==
    \/ S_set_option
    \/ S_get_option

SpecOptions == InitOptions /\ [][NextOptions]_vars

(* ---- the command line program -------------------------------------------- *)
(* main of fitsverify: the flags configure one context, then the file      *)
(* arguments are verified in turn with it.  One action is one turn of the  *)
(* loop over the arguments, or the return at its end.                      *)
ExitCap == 255

Modes == {"text", "quiet", "json"}

(* the context after the flags were parsed, in the given mode *)
Flags(mode, err_report) ==
    [fv_context_new(1) EXCEPT !.heasarc_conv = 0,
                              !.err_report = err_report,
                              !.prstat = IF mode = "quiet" THEN 0 ELSE @,
                              !.output_fn = IF mode = "json" THEN "callback" ELSE @]

InitCLI ==
    /\ \E mode \in Modes, err_report \in {0, 1} :
          /\ ctx = Flags(mode, err_report)
          /\ out = IF mode = "text" THEN "stdout" ELSE "NULL"
    /\ ctx_hint = NoHint
    /\ errstack = 0
    /\ pc = "idle"
    /\ hdu = 0
    /\ defects = 0
    /\ result = NoResult
    /\ delivered = <<>>
    /\ last = NoCall("main")
    /\ emitted = 0
    /\ threads = <<>>
    /\ counted = NoneCounted
    /\ session = [NoSession EXCEPT !.fn = ctx.output_fn]

Exit(code) == Call("main", "exit", 0, FV_OK, 0, FALSE, code, 0, 0)

(* the status main returns when every argument was processed *)
ExitCode(t) ==
    IF t.total_errors + t.total_warnings > ExitCap
    THEN ExitCap
    ELSE t.total_errors + t.total_warnings

(* verify_one_file returned res: main goes on, or returns its status *)
AfterFile(m, res, n) ==
    /\ ctx' = m.ctx
    /\ ctx_hint' = m.ctx_hint
    /\ errstack' = m.errstack
    /\ delivered' = m.delivered
    /\ result' = res
    /\ session' = [session EXCEPT !.calls = @ + 1,
                                  !.errs = @ + res.num_errors,
                                  !.wrns = @ + res.num_warnings]
    /\ pc' = IF res.status # 0 THEN "exited" ELSE pc
    /\ last' = IF res.status # 0
               THEN Exit(res.status)
               ELSE Call("fv_verify_file", "verify", 0, FV_OK, 0, FALSE, 0, 0, n)
    /\ UNCHANGED <<out, hdu, defects, emitted, threads, counted>>

(* a file name on the command line or in the list file *)
CLI_file ==
    /\ pc = "idle"
    /\ session.calls < MaxCalls
    /\ \E f \in SessionFiles, nstack \in 1..MaxStack :
         /\ Explored(ctx, f, out, nstack)
         /\ \E m \in {verify_fits(Prologue(M0, "fv_verify_file", out), out, f, nstack)} :
              AfterFile(m, SessionResult(m.ctx, "fv_verify_file", f.n), f.n)

(* an @listfile argument: read_filelist fails, or its names follow *)
CLI_listfile ==
    /\ pc = "idle"
    /\ last.site # "read_filelist"
    /\ \E readable \in BOOLEAN :
         /\ pc' = IF readable THEN pc ELSE "exited"
         /\ last' = IF readable THEN NoCall("read_filelist") ELSE Exit(1)
    /\ delivered' = <<>>
    /\ UNCHANGED <<ctx, ctx_hint, errstack, out, hdu, defects, result, emitted,
                   threads, counted, session>>

(* the end of the arguments, at least one of them a file or a list *)
CLI_end ==
    /\ pc = "idle"
    /\ session.calls >= 1 \/ last.site = "read_filelist"
    /\ pc' = "exited"
    /\ last' = Exit(ExitCode(fv_get_totals(ctx)))
    /\ delivered' = <<>>
    /\ UNCHANGED <<ctx, ctx_hint, errstack, out, hdu, defects, result, emitted,
                   threads, counted, session>>

NextCLI ==
    \/ CLI_file
    \/ CLI_listfile
    \/ CLI_end

SpecCLI == InitCLI /\ [][NextCLI]_vars

(* ---- the HDU directory's names ------------------------------------------ *)
(* set_hduname and test_hduname of fvrf_file.c, and the scan of the        *)
(* header checks that compares the HDU just read with every earlier one.   *)
FV_WARN_DUPLICATE_EXTNAME == 502
MaxDir == 3
ExtNames == {"", "SCI", "ERR"}
HduTypes == {0, 2}
ExtVers == {0, 1}

(* an entry of the directory as init_hduname leaves it *)
NamedHdu == [errnum |-> 0, wrnno |-> 0, hdutype |-> 0 - 1, extname |-> "", extver |-> 0]

set_hduname(c, hdunum, hdutype, extname, extver) ==
    [c EXCEPT !.hduname[hdunum] =
         [errnum |-> @.errnum, wrnno |-> @.wrnno,
          hdutype |-> hdutype, extname |-> extname, extver |-> extver]]

(* test_hduname comparing the names without looking for empty ones *)
test_hduname_empty(c, hdunum1, hdunum2) ==
    LET p1 == c.hduname[hdunum1]
        p2 == c.hduname[hdunum2]
    IN  IF /\ p1.extname = p2.extname
           /\ p1.hdutype = p2.hdutype
           /\ p2.extver = p1.extver
           /\ hdunum1 # hdunum2
        THEN 1
        ELSE 0

test_hduname(c, hdunum1, hdunum2) ==
    LET p1 == c.hduname[hdunum1]
        p2 == c.hduname[hdunum2]
    IN  IF p1.extname = "" \/ p2.extname = "" THEN 0
        ELSE IF /\ p1.extname = p2.extname
                /\ p1.hdutype = p2.hdutype
                /\ p2.extver = p1.extver
                /\ hdunum1 # hdunum2
        THEN 1
        ELSE 0

(* the earlier HDUs that the scan of HDU hdunum warns about *)
Identical(c, hdunum) == {i \in 1..(hdunum - 1) : test_hduname(c, hdunum, i) = 1}

(* the scan: one warning for each earlier HDU of identical type/name/version *)
RECURSIVE ScanNames(_, _, _, _)
ScanNames(m, o, hdunum, i) ==
    IF i = 0 THEN m
    ELSE ScanNames(IF test_hduname(m.ctx, hdunum, i) = 1
                   THEN wrtwrn(m, o, 0, FV_WARN_DUPLICATE_EXTNAME)
                   ELSE m,
                   o, hdunum, i - 1)

InitNames ==
    /\ \E n \in 1..MaxDir, err_report \in {0, 1} :
          ctx = [fv_context_new(1) EXCEPT !.totalhdu = n,
                                          !.hduname = [i \in 1..n |-> NamedHdu],
                                          !.hduname_ptr = "live",
                                          !.err_report = err_report,
                                          !.output_fn = "callback"]
    /\ ctx_hint = NoHint
    /\ errstack = 0
    /\ out = "NULL"
    /\ pc = "names"
    /\ hdu = 0
    /\ defects = 0
    /\ result = NoResult
    /\ delivered = <<>>
    /\ last = NoCall("init_hduname")
    /\ emitted = 0
    /\ threads = <<>>
    /\ counted = {}
    /\ session = NoSession

(* the header of the next HDU was read: its names are stored and compared; *)
(* counted collects the pairs of indices the warnings name                 *)
NameHdu ==
    /\ pc = "names"
    /\ hdu < ctx.totalhdu
    /\ \E hdutype \in HduTypes, extname \in ExtNames, extver \in ExtVers :
         \E m \in {[M0 EXCEPT !.ctx = set_hduname([ctx EXCEPT !.curhdu = hdu + 1],
                                                 hdu + 1, hdutype, extname, extver)]} :
            /\ \E m2 \in {ScanNames(m, out, hdu + 1, hdu)} :
                 /\ ctx' = m2.ctx
                 /\ ctx_hint' = m2.ctx_hint
                 /\ delivered' = m2.delivered
            /\ counted' = counted \cup {<<hdu + 1, i>> : i \in Identical(m.ctx, hdu + 1)}
    /\ hdu' = hdu + 1
    /\ last' = NoCall("test_hduname")
    /\ UNCHANGED <<errstack, out, pc, defects, result, emitted, threads, session>>

NextNames == NameHdu

SpecNames == InitNames /\ [][NextNames]_vars

(* ---- the reader-error operations on their own --------------------------- *)
(* wrtferr and wrtserr applied to contexts, reader stacks and severities   *)
(* drawn from small sets; last.status is the caller's reader status when   *)
(* the operation returns, errstack what is left on the reader's stack, and *)
(* counted the positions of tmp[20][80] the call has touched.              *)
StackLoads == {0, 1, StackCap - 1, StackCap, StackCap + 1}
ReaderSeverities == {1, 2}

(* the loop that captures the stack: tmp[nstack] is written, then filled *)
Captured(n) == 0..Min(n, StackCap - 1)

(* for(i=0; i<nstack; i++) dispatch_msg(..., tmp[i]) *)
Dispatched(nstack) == 0..(nstack - 1)

(* for(i=0; i<=nstack; i++) fprintf(..., tmp[i]) *)
Printed(nstack) == 0..nstack

(* the positions of tmp that wrtserr touches, n messages being on the stack *)
TmpIndices(c, o, severity, n) ==
    IF c.maxerrors_reached # 0 \/ severity < c.err_report THEN {}
    ELSE Captured(n) \cup
         (IF c.output_fn # "NULL" THEN Dispatched(Min(n, StackCap))
          ELSE IF o # "NULL" THEN Printed(Min(n, StackCap))
          ELSE {})

InitReader ==
    /\ \E err_report \in 0..2, fn \in {"NULL", "callback"}, reached \in {0, 1} :
          ctx = [fv_context_new(1) EXCEPT !.err_report = err_report,
                                          !.output_fn = fn,
                                          !.maxerrors_reached = reached,
                                          !.nerrs = IF reached = 1 THEN MAXERRORS + 1 ELSE 0]
    /\ out \in (IF ctx.output_fn # "NULL" THEN {"NULL"} ELSE OutKinds)
    /\ ctx_hint = NoHint
    /\ errstack = 0
    /\ pc = "reader"
    /\ hdu = 0
    /\ defects = 0
    /\ result = NoResult
    /\ delivered = <<>>
    /\ last = NoCall("fv_context_new")
    /\ emitted = 0
    /\ threads = <<>>
    /\ counted = {}
    /\ session = NoSession

(* the operation has returned m *)
Returns(m, op, severity, code, n, touched) ==
    /\ ctx' = m.ctx
    /\ ctx_hint' = m.ctx_hint
    /\ errstack' = m.errstack
    /\ delivered' = m.delivered
    /\ last' = Call("reader", op, severity, code, 0, FALSE, m.status, 0, n)
    /\ counted' = touched
    /\ hdu' = hdu + 1
    /\ UNCHANGED <<out, pc, defects, result, emitted, threads, session>>

(* a reader call failed, leaving n messages, and is reported with wrtferr *)
ReaderErr ==
    /\ pc = "reader"
    /\ hdu < MaxCalls
    /\ \E severity \in ReaderSeverities, n \in StackLoads :
         Returns(wrtferr(ReaderFails(M0, n), out, severity, FV_ERR_CFITSIO),
                 "reader_err", severity, FV_ERR_CFITSIO, n, {})

(* the same, reported with wrtserr *)
ReaderErrWithStack ==
    /\ pc = "reader"
    /\ hdu < MaxCalls
    /\ \E severity \in ReaderSeverities, n \in StackLoads :
         Returns(wrtserr(ReaderFails(M0, n), out, severity, FV_ERR_CFITSIO_STACK),
                 "reader_err_with_stack", severity, FV_ERR_CFITSIO_STACK, n,
                 TmpIndices(ctx, out, severity, n))

NextReader ==
    \/ ReaderErr
    \/ ReaderErrWithStack

SpecReader == InitReader /\ [][NextReader]_vars

(* ---- the column iterator's work function over a whole table ------------- *)
(* fits_iterate_data hands the rows of a table to iterdata in batches; the *)
(* UserIter structure lives across the batches.  counted holds its         *)
(* find_badbit flag and, for each bit column, how many bit-not-justified   *)
(* diagnostics have been emitted; hdu counts the batches delivered.        *)
MaxBatches == 2

UserIter == [find_badbit |-> 0, emitted |-> [i \in 1..MaxCols |-> 0]]

(* the bit check of column i in one batch, bad telling whether a row of *)
(* the batch has fill bits set; u is [m, usrpt]                         *)
CheckBits(u, o, i, bad) ==
    LET usr == [u.usrpt EXCEPT !.find_badbit = 0]
        m1 == [u.m EXCEPT !.ctx = FV_HINT_SET_COLNUM(@, i)]
        m2 == print_fmt(wrterr(m1, o, 2, FV_ERR_BIT_NOT_JUSTIFIED), o, "other rows")
    IN  IF usr.find_badbit = 0 /\ bad
        THEN [m |-> m2,
              usrpt |-> [usr EXCEPT !.find_badbit = 1,
                                    !.emitted[i] = @ + (m2.ctx.nerrs - m1.ctx.nerrs)]]
        ELSE [m |-> m1, usrpt |-> usr]

(* one call of the work function: the first batch initialises the flag, *)
(* then the columns are checked in turn                                 *)
RECURSIVE Columns(_, _, _, _, _)
Columns(u, o, bad, i, n) ==
    IF i > n THEN u
    ELSE Columns(CheckBits(u, o, i, i \in bad), o, bad, i + 1, n)

Batch(m, usrpt, o, firstn, bad) ==
    Columns([m |-> m,
             usrpt |-> IF firstn = 1 THEN [usrpt EXCEPT !.find_badbit = 0] ELSE usrpt],
            o, bad, 1, MaxCols)

InitIter ==
    /\ \E o \in OptionProfiles : ctx = Configure(fv_context_new(1), o)
    /\ out \in Outs(ctx)
    /\ ctx_hint = NoHint
    /\ errstack = 0
    /\ pc = "iterate"
    /\ hdu = 0
    /\ defects = 0
    /\ result = NoResult
    /\ delivered = <<>>
    /\ last = NoCall("fits_iterate_data")
    /\ emitted = 0
    /\ threads = <<>>
    /\ counted = UserIter
    /\ session = NoSession

(* the reader delivers the next batch of rows *)
IterBatch ==
    /\ pc = "iterate"
    /\ hdu < MaxBatches
    /\ \E bad \in SUBSET (1..MaxCols) :
         \E u \in {Batch(M0, counted, out, hdu + 1, bad)} :
            /\ ctx' = u.m.ctx
            /\ ctx_hint' = u.m.ctx_hint
            /\ delivered' = u.m.delivered
            /\ counted' = u.usrpt
            /\ last' = Call("iterdata", IF bad = {} THEN "none" ELSE "err", 2,
                            IF bad = {} THEN FV_OK ELSE FV_ERR_BIT_NOT_JUSTIFIED,
                            0, TRUE, 0, 0, Cardinality(bad))
    /\ hdu' = hdu + 1
    /\ UNCHANGED <<errstack, out, pc, defects, result, emitted, threads, session>>

NextIter == IterBatch

SpecIter == InitIter /\ [][NextIter]_vars

(* ---- the keyword checkers on their own ---------------------------------- *)
(* The six type checkers and the three fixed-format checkers of the key    *)
(* module applied to parsed cards and card images drawn from small sets.   *)
(* last.site is the checker, last.code the code it handed to wrterr, and   *)
(* counted what it was applied to.                                         *)
FV_ERR_BAD_LOGICAL == 207

TypeCheckers == {"check_str", "check_int", "check_flt", "check_cmi", "check_cmf",
                 "check_log"}
ParsedTypes == {"STR_KEY", "INT_KEY", "FLT_KEY", "CMI_KEY", "CMF_KEY", "LOG_KEY",
                "UNKNOWN"}

(* pkey: the name, the type the parser found and the value text *)
ParsedCards == [kname : {"XKEY"}, ktype : ParsedTypes, kvalue : {"", "1"}]

(* the types a checker lets pass *)
Accepts(checker, ktype) ==
    CASE checker = "check_str" -> ktype = "STR_KEY"
      [] checker = "check_int" -> ktype = "INT_KEY"
      [] checker = "check_flt" -> ktype \in {"INT_KEY", "FLT_KEY"}
      [] checker = "check_cmi" -> ktype = "CMI_KEY"
      [] checker = "check_cmf" -> ktype \in {"CMI_KEY", "CMF_KEY"}
      [] OTHER -> ktype = "LOG_KEY"

(* the checkers that begin with the test for a null value *)
TestsNull(checker) == checker \in {"check_str", "check_int", "check_flt"}

(* the code a checker without any test for a null value hands to wrterr *)
KeyCode_typeonly(checker, pkey) ==
    IF Accepts(checker, pkey.ktype) THEN FV_OK ELSE FV_ERR_WRONG_TYPE

(* the code the checker hands to wrterr, FV_OK when the card passes *)
KeyCode(checker, pkey) ==
    IF TestsNull(checker) /\ pkey.ktype = "UNKNOWN" /\ pkey.kvalue = ""
    THEN FV_ERR_NULL_VALUE
    ELSE IF ~Accepts(checker, pkey.ktype) THEN FV_ERR_WRONG_TYPE
    ELSE FV_OK

(* the call site writes its own fix and explanation for a wrong type:   *)
(* check_str always, the others when the value was entered as a string  *)
WritesHint(checker, pkey) == checker = "check_str" \/ pkey.ktype = "STR_KEY"

check_key(m, o, checker, pkey) ==
    LET m1 == [m EXCEPT !.ctx = FV_HINT_SET_KEYWORD(@, pkey.kname)]
        code == KeyCode(checker, pkey)
    IN  IF code = FV_OK THEN m1
        ELSE IF code = FV_ERR_WRONG_TYPE /\ WritesHint(checker, pkey)
        THEN wrterr([m1 EXCEPT !.ctx = FV_HINT_SET_EXPLAIN(
                                   FV_HINT_SET_FIX(@, FV_ERR_WRONG_TYPE, pkey.kname, 0),
                                   FV_ERR_WRONG_TYPE, pkey.kname, 0)],
                    o, 1, FV_ERR_WRONG_TYPE)
        ELSE wrterr(m1, o, 1, code)

(* card images: ten columns of name and value indicator, then the value *)
Spaces(n) == [i \in 1..n |-> " "]
Filled(n) == [i \in 1..n |-> "A"]
NameColumns == <<"X", "K", "E", "Y", " ", " ", " ", " ", "=", " ">>
Digits == {"1", "6", "8"}

IntCards == {NameColumns \o Spaces(k) \o s \o d :
                k \in 17..19, s \in {<<>>, <<"-">>, <<"+">>},
                d \in {<<"8">>, <<"1", "6">>}}
LogCards == {NameColumns \o Spaces(k) \o <<c>> : k \in 18..20, c \in {"T", "F", "X"}}
StrCards == {NameColumns \o lead \o <<"'">> \o Filled(n) \o close :
                lead \in {<<>>, <<" ">>}, n \in {5, 8},
                close \in {<<>>, <<"'">>}}

(* card[i] of the C string, the terminator standing at its end *)
At(card, i) == IF i + 1 <= Len(card) THEN card[i + 1] ELSE "NUL"

(* the pointer is advanced while the character under it is in set *)
RECURSIVE Skip(_, _, _)
Skip(card, cptr, set) ==
    IF At(card, cptr) \in set THEN Skip(card, cptr + 1, set) ELSE cptr

(* where check_fixed_int's pointer stands after spaces, sign and digits *)
IntEnd(card) ==
    LET a == Skip(card, 10, {" "})
        b == IF At(card, a) \in {"-", "+"} THEN a + 1 ELSE a
    IN  Skip(card, b, Digits)

(* the pointer is advanced to the closing quote; -1 when the string ends first *)
RECURSIVE ClosingQuote(_, _)
ClosingQuote(card, cptr) ==
    IF At(card, cptr) = "'" THEN cptr
    ELSE IF At(card, cptr) = "NUL" THEN 0 - 1
    ELSE ClosingQuote(card, cptr + 1)

(* check_fixed_log that never shows the card *)
check_fixed_log_bare(m, o, kname, card) ==
    LET m1 == [m EXCEPT !.ctx = FV_HINT_SET_KEYWORD(@, kname)]
        cptr == Skip(card, 10, {" "})
    IN  IF At(card, cptr) \notin {"T", "F"}
        THEN wrterr(m1, o, 1, FV_ERR_BAD_LOGICAL)
        ELSE IF cptr # 29
        THEN wrterr(m1, o, 1, FV_ERR_NOT_FIXED_FORMAT)
        ELSE m1

check_fixed_log(m, o, kname, card) ==
    LET m1 == [m EXCEPT !.ctx = FV_HINT_SET_KEYWORD(@, kname)]
        cptr == Skip(card, 10, {" "})
    IN  IF At(card, cptr) \notin {"T", "F"}
        THEN wrterr(m1, o, 1, FV_ERR_BAD_LOGICAL)
        ELSE IF cptr # 29
        THEN print_fmt(print_fmt(wrterr(m1, o, 1, FV_ERR_NOT_FIXED_FORMAT),
                                 o, "card"), o, "arrow")
        ELSE m1

check_fixed_str(m, o, kname, card) ==
    LET m1 == [m EXCEPT !.ctx = FV_HINT_SET_KEYWORD(@, kname)]
        failed == wrterr(m1, o, 1, FV_ERR_NOT_FIXED_FORMAT)
    IN  IF At(card, 10) # "'"
        THEN print_fmt(print_fmt(failed, o, "card"), o, "arrow")
        ELSE IF ClosingQuote(card, 11) < 0
        THEN print_fmt(failed, o, "card")
        ELSE IF ClosingQuote(card, 11) < 19
        THEN print_fmt(print_fmt(failed, o, "card"), o, "arrow")
        ELSE m1

FixedCheckers == {"check_fixed_int", "check_fixed_log", "check_fixed_str"}

FixedCards(checker) ==
    CASE checker = "check_fixed_int" -> IntCards
      [] checker = "check_fixed_log" -> LogCards
      [] OTHER -> StrCards

(* which test of the checker the card fails *)
FixedFailure(checker, card) ==
    CASE checker = "check_fixed_int" ->
             IF IntEnd(card) # 30 THEN "not_fixed" ELSE "none"
      [] checker = "check_fixed_log" ->
             IF At(card, Skip(card, 10, {" "})) \notin {"T", "F"} THEN "not_logical"
             ELSE IF Skip(card, 10, {" "}) # 29 THEN "not_fixed"
             ELSE "none"
      [] OTHER ->
             IF At(card, 10) # "'" THEN "no_opening_quote"
             ELSE IF ClosingQuote(card, 11) < 0 THEN "no_closing_quote"
             ELSE IF ClosingQuote(card, 11) < 19 THEN "short"
             ELSE "none"

check_fixed(m, o, checker, card) ==
    CASE checker = "check_fixed_int" ->
             check_fixed_int(m, o, "XKEY", IntEnd(card) = 30)
      [] checker = "check_fixed_log" -> check_fixed_log(m, o, "XKEY", card)
      [] OTHER -> check_fixed_str(m, o, "XKEY", card)

InitKeys ==
    /\ \E o \in OptionProfiles : ctx = Configure(fv_context_new(1), o)
    /\ out \in Outs(ctx)
    /\ ctx_hint = NoHint
    /\ errstack = 0
    /\ pc = "checker"
    /\ hdu = 0
    /\ defects = 0
    /\ result = NoResult
    /\ delivered = <<>>
    /\ last = NoCall("fv_context_new")
    /\ emitted = 0
    /\ threads = <<>>
    /\ counted = <<>>
    /\ session = NoSession

(* the checker has returned m *)
Checked(m, checker, code, failure, subject) ==
    /\ ctx' = m.ctx
    /\ ctx_hint' = m.ctx_hint
    /\ delivered' = m.delivered
    /\ last' = Call(checker, IF code = FV_OK THEN "none" ELSE "err", 1, code,
                    0, FALSE, 0, 0, 0)
    /\ counted' = [failure |-> failure, subject |-> subject]
    /\ hdu' = hdu + 1
    /\ UNCHANGED <<errstack, out, pc, defects, result, emitted, threads, session>>

CheckKey ==
    /\ pc = "checker"
    /\ hdu < MaxCalls
    /\ \E checker \in TypeCheckers, pkey \in ParsedCards :
         Checked(check_key(M0, out, checker, pkey), checker, KeyCode(checker, pkey),
                 IF KeyCode(checker, pkey) = FV_OK THEN "none" ELSE "type", pkey)

CheckFixed ==
    /\ pc = "checker"
    /\ hdu < MaxCalls
    /\ \E checker \in FixedCheckers :
         \E card \in FixedCards(checker) :
            Checked(check_fixed(M0, out, checker, card), checker,
                    CASE FixedFailure(checker, card) = "none" -> FV_OK
                      [] FixedFailure(checker, card) = "not_logical" -> FV_ERR_BAD_LOGICAL
                      [] OTHER -> FV_ERR_NOT_FIXED_FORMAT,
                    FixedFailure(checker, card), card)

NextKeys ==
    \/ CheckKey
    \/ CheckFixed

SpecKeys == InitKeys /\ [][NextKeys]_vars

(* ---- the line wrapper of FILE mode -------------------------------------- *)
(* print_fmt breaking a text into a first line of 80 columns and           *)
(* continuation lines of 80 - nprompt columns.  counted holds the text,    *)
(* the margin, the pointer p into the text (an offset from its start), the *)
(* remaining length i and the number of lines written so far.              *)
LineWidth == 80
MarginCap == 70
MaxLines == 30

(* texts: up to three runs of one character each, a space between them *)
Runs == {<<10, "a">>, <<40, "a">>, <<70, "a">>, <<40, "TAB">>}
Run(r) == [k \in 1..r[1] |-> r[2]]
Texts ==
    {Run(r) : r \in Runs}
    \cup {Run(r) \o <<" ">> \o Run(s) : r \in Runs, s \in Runs}
    \cup {Run(r) \o <<" ">> \o Run(s) \o <<" ", " ">> \o Run(t) :
             r \in Runs, s \in Runs, t \in Runs}
Margins == {0, 13, MarginCap + 5}

isprint(c) == c \in {"a", " "}

(* j is decreased until the character at p + j is a space, or j is 0 *)
RECURSIVE BackToSpace(_, _, _)
BackToSpace(text, p, j) ==
    IF At(text, p + j) # " " /\ j > 0 THEN BackToSpace(text, p, j - 1) ELSE j

(* where p stands after the first line of a text longer than 80 columns *)
AfterFirst(text) ==
    IF isprint(At(text, 79)) /\ isprint(At(text, 80)) /\ At(text, 80) # "NUL"
    THEN Skip(text, BackToSpace(text, 0, 79), {" "})
    ELSE IF At(text, 80) = " "
    THEN Skip(text, 80, {" "})
    ELSE 80

(* where p stands after a continuation line, i being strlen(p) - clen *)
AfterNext(text, p, clen, i) ==
    IF /\ i > 0
       /\ isprint(At(text, p + clen - 1))
       /\ isprint(At(text, p + clen))
       /\ At(text, p + clen) # "NUL"
    THEN Skip(text, p + BackToSpace(text, p, clen), {" "})
    ELSE IF i > 0 /\ At(text, p + clen) = " "
    THEN Skip(text, p + clen, {" "})
    ELSE IF i > 0
    THEN p + clen
    ELSE p

InitFmt ==
    /\ ctx = fv_context_new(1)
    /\ out = "file"
    /\ ctx_hint = NoHint
    /\ errstack = 0
    /\ pc = "fmt_first"
    /\ hdu = 0
    /\ defects = 0
    /\ result = NoResult
    /\ delivered = <<>>
    /\ last = NoCall("print_fmt")
    /\ emitted = 0
    /\ threads = <<>>
    /\ \E text \in Texts, nprompt \in Margins :
          counted = [text |-> text,
                     clen |-> LineWidth - Min(nprompt, MarginCap),
                     p |-> 0, i |-> Len(text) - LineWidth, lines |-> 0]
    /\ session = NoSession

Wrapping == <<ctx, ctx_hint, errstack, out, hdu, defects, result, delivered, last,
              emitted, threads, session>>

(* the first line: the whole text when it fits, else its first columns *)
PrintFirst ==
    /\ pc = "fmt_first"
    /\ pc' = IF counted.i <= 0 THEN "fmt_done" ELSE "fmt_next"
    /\ counted' = [counted EXCEPT
                      !.p = IF counted.i <= 0 THEN @ ELSE AfterFirst(counted.text),
                      !.lines = 1]
    /\ UNCHANGED Wrapping

(* one turn of the loop: a continuation line is written; the lines written *)
(* are counted modulo MaxLines                                             *)
PrintNext ==
    /\ pc = "fmt_next"
    /\ At(counted.text, counted.p) # "NUL"
    /\ counted.i > 0
    /\ \E i \in {(Len(counted.text) - counted.p) - counted.clen} :
          counted' = [counted EXCEPT
                         !.i = i,
                         !.p = AfterNext(counted.text, counted.p, counted.clen, i),
                         !.lines = (@ % MaxLines) + 1]
    /\ UNCHANGED <<pc, Wrapping>>

(* the loop is left *)
PrintEnd ==
    /\ pc = "fmt_next"
    /\ At(counted.text, counted.p) = "NUL" \/ counted.i <= 0
    /\ pc' = "fmt_done"
    /\ UNCHANGED <<counted, Wrapping>>

NextFmt ==
    \/ PrintFirst
    \/ PrintNext
    \/ PrintEnd

SpecFmt == InitFmt /\ [][NextFmt]_vars

(* the call runs on its own thread of control without interruption: a    *)
(* step that is possible is eventually taken                             *)
SpecFmtLive == SpecFmt /\ WF_vars(NextFmt)

(* C6: with two verifications on two threads, every hint pointer a thread  *)
(* attaches to a message, and every hint text delivered to its callback,   *)
(* is its own context's (or the read-only catalog's), never the other's.   *)
C6_NoSharedHints ==
    \A t \in Tids :
        /\ threads[t].msg.fix_hint.owner \in {0, t}
        /\ threads[t].msg.explain.owner \in {0, t}
        /\ \A i \in 1..Len(threads[t].delivered) :
              /\ threads[t].delivered[i].fix_hint.owner \in {0, t}
              /\ threads[t].delivered[i].explain.owner \in {0, t}

(* ---- properties: the abort flag ---------------------------------------- *)
CountingOps == {"warn", "err", "reader_err", "reader_err_with_stack"}

Counters(c) ==
    <<c.nerrs, c.nwrns, c.hduname, c.file_total_err, c.file_total_warn,
      c.totalerr, c.totalwrn>>

(* C1: once the abort flag is set, a warn, err, reader_err or              *)
(* reader_err_with_stack call leaves the per-HDU error and warning         *)
(* counters, the HDU directory and the per-file and session totals         *)
(* unchanged; in the step that sets the flag the error counter stops at    *)
(* the emission that set it, whatever calls follow in that step.           *)
C1_CountersFrozenAfterAbort ==
    [][/\ (Aborted /\ last'.op \in CountingOps) => Counters(ctx') = Counters(ctx)
       /\ (~Aborted /\ ctx'.maxerrors_reached # 0) => ctx'.nerrs = MAXERRORS + 1]_vars

(* a counting call was made with the flag already set *)
C1_Witness ==
    /\ Aborted
    /\ last.op \in CountingOps
    /\ last.late > 0
    /\ ctx.nerrs = MAXERRORS + 1

(* a delivered message that comes from an info call *)
IsInfo(x) ==
    /\ x.text \notin {WarnPrefix, ErrPrefix, TooManyText, "    Fix: ",
                      "    Explanation: ", "stack"}
    /\ x.sink = "callback" => x.severity = FV_MSG_INFO

TerminalAt(d) == {i \in 1..Len(d) : d[i].text = TooManyText}

(* C2 as stated: once the abort flag is set, no step delivers anything to  *)
(* the sink, whichever of the five operations it calls.                    *)
C2_NothingDeliveredAfterAbort == [][Aborted => delivered' = <<>>]_vars

(* C2 amended: once the abort flag is set, warn, err, reader_err and       *)
(* reader_err_with_stack calls deliver nothing, so that all that reaches   *)
(* the sinks after the terminal diagnostic comes from info calls; info     *)
(* calls are still delivered: the end-of-file summary is written.          *)
C2_OnlyInfoAfterAbort ==
    [][/\ Aborted => \A i \in 1..Len(delivered') : IsInfo(delivered'[i])
       /\ \A t \in TerminalAt(delivered') :
             \A j \in (t + 1)..Len(delivered') : IsInfo(delivered'[j])
       /\ (Aborted /\ pc = "report" /\ (ctx.output_fn # "NULL" \/ out # "NULL"))
             => delivered' # <<>>]_vars

(* info lines were delivered by a step made with the flag set *)
C2_Witness ==
    /\ Aborted
    /\ last.late > 0
    /\ last.site = "check_fixed_int"
    /\ last.op = "err"
    /\ delivered # <<>>

(* errors emitted so far for the file, over all its HDUs *)
FileErrs(c) == SumErr(c.hduname, Len(c.hduname)) + c.nerrs

(* C3 as stated: during a verification the abort flag is set, and the      *)
(* terminal diagnostic has been emitted, exactly when the per-file count   *)
(* of emitted errors exceeds 200.                                          *)
C3_PerFileCap ==
    pc \notin {"idle", "done"} =>
        /\ Aborted <=> FileErrs(ctx) > MAXERRORS
        /\ emitted > 0 <=> FileErrs(ctx) > MAXERRORS

(* C3 amended: the abort flag is set, and the terminal diagnostic emitted  *)
(* once, in the step in which the per-HDU error counter (which restarts at *)
(* every HDU boundary) goes from at most 200 to more than 200, right after *)
(* the error that took it there and its stack lines, and in no other step. *)
C3_PerHduCap ==
    [][LET trips == ctx.nerrs <= MAXERRORS /\ ctx'.nerrs > MAXERRORS
       IN  /\ (~Aborted /\ ctx'.maxerrors_reached # 0) <=> trips
           /\ Terminals(delivered') = IF trips THEN 1 ELSE 0
           /\ (trips /\ ctx.output_fn # "NULL") =>
                 \A t \in TerminalAt(delivered') :
                     /\ delivered'[t - 1].text \in {ErrPrefix, "stack"}
                     /\ Cardinality({i \in 1..t : delivered'[i].text = ErrPrefix})
                            = MAXERRORS + 1 - ctx.nerrs]_vars

(* the flag was set in a later HDU than the first *)
C3_Witness ==
    /\ Aborted
    /\ Terminals(delivered) = 1
    /\ ctx.nerrs = MAXERRORS + 1
    /\ hdu = 2

(* C4 as stated: a verify call that returns 0 reports aborted = 1 iff the  *)
(* terminal diagnostic was emitted during it, and a file that produced     *)
(* more than 200 errors reports aborted = 1 with the terminal delivered.   *)
C4_AbortedIffOver200 ==
    (pc = "done" /\ result.status = 0) =>
        /\ result.aborted = 1 <=> emitted > 0
        /\ result.num_errors > MAXERRORS => (result.aborted = 1 /\ emitted > 0)

(* C4 amended: a verify call that returns 0 reports aborted = 1 iff the    *)
(* terminal diagnostic was emitted during it (once), and that is so        *)
(* exactly when one HDU of the file, or its file-level checks, produced    *)
(* more than 200 errors.                                                   *)
C4_AbortedIffTerminal ==
    [][(pc' = "done" /\ result'.status = 0) =>
          /\ result'.aborted \in {0, 1}
          /\ result'.aborted = 1 <=> emitted' = 1
          /\ result'.aborted = 0 <=> emitted' = 0
          /\ result'.aborted = 1 <=>
                \/ ctx.nerrs > MAXERRORS
                \/ \E i \in 1..Len(ctx.hduname) : ctx.hduname[i].errnum > MAXERRORS]_vars

(* an aborted verification has returned 0 *)
C4_Witness ==
    /\ pc = "done"
    /\ result.status = 0
    /\ result.aborted = 1
    /\ emitted = 1
    /\ result.num_errors = MAXERRORS + 1

(* C5 as stated: no validation check is performed with the abort flag set. *)
C5_NoValidationAfterAbort == last.late = 0

(* C5 amended: once the abort flag is set no further HDU is started and    *)
(* the descriptor loop of the data validator stops, while the remaining    *)
(* checks of the current HDU and the file-level check still run; the       *)
(* driver leaves its loop at the next HDU boundary and returns 0 through   *)
(* close_report, which destroys the HDU directory, with aborted = 1.       *)
C5_AbortStopsAtBoundary ==
    [][/\ Aborted => pc' # "cards"
       /\ (Aborted /\ pc = "loop") => pc' = "end"
       /\ pc = "rows" => last'.late = 0
       /\ (Aborted /\ pc' = "done") =>
             /\ pc = "report"
             /\ last'.site = "close_report"
             /\ ctx'.hduname = <<>>
             /\ ctx'.hduname_ptr = "dangling"
             /\ result'.status = 0
             /\ result'.aborted = 1]_vars

(* the descriptor loop met a bad row with the flag set, and stopped *)
C5_Witness ==
    /\ Aborted
    /\ pc = "close"
    /\ last.site = "test_data"
    /\ last.code = FV_ERR_VAR_EXCEEDS_MAXLEN
    /\ last.n = 1
    /\ last.late = 0

(* ---- properties: the severity filter and the hints ---------------------- *)
ErrOps == {"err", "reader_err", "reader_err_with_stack"}
Sinks == OutKinds \cup {"stderr", "callback"}

(* how many times a text was delivered to a sink *)
Copies(d, sink, text) ==
    Cardinality({i \in 1..Len(d) : d[i].sink = sink /\ d[i].text = text})

(* the calls of a step that are made before the cap is exceeded *)
Live(c, n) == Min(n, MAXERRORS + 1 - c.nerrs)

(* the sink of a verification: the callback, or else the FILE argument *)
TheSink(c, o) == IF c.output_fn # "NULL" THEN "callback" ELSE o

(* where the FILE branch writes an error, and where a warning *)
ErrStreams(c, o) ==
    CASE c.output_fn # "NULL" -> {"callback"}
      [] o = "NULL" -> {}
      [] IsRegular(o) -> {o, "stderr"}
      [] OTHER -> {"stderr"}

WarnStreams(c, o) ==
    CASE c.output_fn # "NULL" -> {"callback"}
      [] o = "NULL" -> {}
      [] OTHER -> {o}

(* C7 as stated: an error below err_report is neither delivered nor        *)
(* counted; any other error, the abort flag not being set, is delivered    *)
(* to the sink once and counted once.                                      *)
C7_DeliveredOnce ==
    [][(last'.op \in ErrOps /\ ~Aborted) =>
          IF last'.severity < ctx.err_report
          THEN /\ ctx'.nerrs = ctx.nerrs
               /\ \A s \in Sinks : Copies(delivered', s, ErrPrefix) = 0
          ELSE /\ ctx'.nerrs = ctx.nerrs + Live(ctx, last'.n)
               /\ Copies(delivered', TheSink(ctx, out'), ErrPrefix)
                     = Live(ctx, last'.n)]_vars

(* C7 amended: an error below err_report is neither delivered nor counted; *)
(* any other error, the abort flag not being set, is counted once, and is  *)
(* delivered once to the callback when one is registered; without a        *)
(* callback it is written once to stderr when out is not NULL, once more   *)
(* to out when out is a regular file, and nowhere when out is NULL.        *)
C7_CountedOnce ==
    [][(last'.op \in ErrOps /\ ~Aborted) =>
          IF last'.severity < ctx.err_report
          THEN /\ ctx'.nerrs = ctx.nerrs
               /\ \A s \in Sinks : Copies(delivered', s, ErrPrefix) = 0
          ELSE /\ ctx'.nerrs = ctx.nerrs + Live(ctx, last'.n)
               /\ \A s \in Sinks :
                     Copies(delivered', s, ErrPrefix)
                        = IF s \in ErrStreams(ctx, out') THEN Live(ctx, last'.n)
                          ELSE 0]_vars

(* an error was written to a regular file and to stderr *)
C7_Witness ==
    /\ last.op = "err"
    /\ last.n = 1
    /\ last.late = 0
    /\ out = "file"
    /\ ctx.output_fn = "NULL"
    /\ ctx.nerrs = 1
    /\ Copies(delivered, "file", ErrPrefix) = 1
    /\ Copies(delivered, "stderr", ErrPrefix) = 1

(* C8 as stated: with err_report >= 1 no warning is delivered or counted;  *)
(* with err_report = 0 every warning, but a HEASARC-only one with HEASARC  *)
(* checking disabled, is delivered to the sink once and counted once.      *)
C8_WarningsDelivered ==
    [][/\ ctx.err_report >= 1 =>
             /\ ctx'.nwrns <= ctx.nwrns
             /\ \A s \in Sinks : Copies(delivered', s, WarnPrefix) = 0
       /\ (last'.op = "warn" /\ ctx.err_report = 0
              /\ ~(ctx.heasarc_conv = 0 /\ last'.isheasarc # 0)) =>
             /\ ctx'.nwrns = ctx.nwrns + 1
             /\ Copies(delivered', TheSink(ctx, out'), WarnPrefix) = 1]_vars

(* C8 amended: with err_report >= 1 no warning is delivered or counted;    *)
(* with err_report = 0 a warning, but a HEASARC-only one with HEASARC      *)
(* checking disabled, is counted once while the abort flag is not set, and *)
(* delivered once to the callback, or else to out when out is not NULL;    *)
(* once the abort flag is set it is neither counted nor delivered.         *)
C8_WarningsCounted ==
    [][/\ ctx.err_report >= 1 =>
             /\ ctx'.nwrns <= ctx.nwrns
             /\ \A s \in Sinks : Copies(delivered', s, WarnPrefix) = 0
       /\ (last'.op = "warn" /\ ctx.err_report = 0
              /\ ~(ctx.heasarc_conv = 0 /\ last'.isheasarc # 0)) =>
             IF Aborted
             THEN /\ ctx'.nwrns = ctx.nwrns
                  /\ \A s \in Sinks : Copies(delivered', s, WarnPrefix) = 0
             ELSE /\ ctx'.nwrns = ctx.nwrns + 1
                  /\ \A s \in Sinks :
                        Copies(delivered', s, WarnPrefix)
                           = IF s \in WarnStreams(ctx, out') THEN 1 ELSE 0]_vars

(* a checksum warning was written to out and counted *)
C8_Witness ==
    /\ last.site = "test_checksum"
    /\ last.op = "warn"
    /\ last.late = 0
    /\ ctx.err_report = 0
    /\ ctx.nwrns = 1
    /\ Copies(delivered, TheSink(ctx, out), WarnPrefix) = 1

HintLines == {"    Fix: ", "    Explanation: "}

(* C9: a delivered diagnostic carries a fix hint only if fix_hints is on   *)
(* and an explanation only if explain is on, each whatever the other       *)
(* option is; an info diagnostic carries neither.  In FILE mode the hints  *)
(* are the "Fix:" and "Explanation:" lines.                                *)
C9_HintsFollowOptions ==
    \A i \in 1..Len(delivered) :
        LET x == delivered[i]
        IN  /\ (x.fix_hint # NullText /\ x.text # "    Explanation: ")
                  => ctx.fix_hints # 0
            /\ (x.explain # NullText \/ x.text = "    Explanation: ")
                  => ctx.explain # 0
            /\ (x.sink = "callback" /\ x.severity = FV_MSG_INFO)
                  => (x.fix_hint = NullText /\ x.explain = NullText)
            /\ (x.sink # "callback" /\ x.text \notin HintLines)
                  => (x.fix_hint = NullText /\ x.explain = NullText)

(* with explain alone enabled an error came with an explanation and no fix *)
C9_Witness ==
    /\ ctx.fix_hints = 0
    /\ ctx.explain # 0
    /\ \E i \in 1..Len(delivered) :
          /\ delivered[i].sink = "callback"
          /\ delivered[i].severity = FV_MSG_ERROR
          /\ delivered[i].explain # NullText
          /\ delivered[i].fix_hint = NullText

Blank(c) == c.hint_keyword = "" /\ c.hint_colnum = 0 /\ c.hint_callsite = 0

(* C10: the hint context is blank after a step that ends with a delivered  *)
(* diagnostic, and a diagnostic emitted without an annotation of its own   *)
(* carries no keyword and no column number in its hints.                   *)
C10_HintContextBlank ==
    [][/\ (delivered' # <<>> /\ last'.site # "iterdata") => Blank(ctx')
       /\ (last'.op \in CountingOps /\ ~last'.annotated) =>
             \A i \in 1..Len(delivered') :
                 /\ delivered'[i].fix_hint.kw = ""
                 /\ delivered'[i].fix_hint.col = 0
                 /\ delivered'[i].explain.kw = ""
                 /\ delivered'[i].explain.col = 0]_vars

(* ---- properties: the call-site hints ------------------------------------ *)

(* the last step emitted an error whose call site wrote the fix text and    *)
(* the explanation itself (check_str on a non-string, the maxlen check)     *)
PreFilled ==
    /\ last.op \in {"err", "warn_err"}
    /\ last.code \in {FV_ERR_WRONG_TYPE, FV_ERR_VAR_EXCEEDS_MAXLEN}

(* the hint lines of the given label that no later line of that label and  *)
(* stream follows: those of the last diagnostic of the step                *)
LastHintLines(d, label) ==
    {i \in 1..Len(d) :
        /\ d[i].text = label
        /\ \A j \in (i + 1)..Len(d) : ~(d[j].text = label /\ d[j].sink = d[i].sink)}

(* C11: when the call site has pre-filled the fix text or the explanation, *)
(* the hint attached to the diagnostic is that text, unchanged, whatever   *)
(* the error code and whether or not the hint context holds a keyword or a *)
(* column.                                                                 *)
C11_CallSiteTextKept ==
    PreFilled =>
       /\ \A i \in 1..Len(delivered) :
             (delivered[i].sink = "callback" /\ delivered[i].code = last.code) =>
                /\ ctx.fix_hints # 0 => delivered[i].fix_hint.src = "callsite"
                /\ ctx.explain # 0 => delivered[i].explain.src = "callsite"
       /\ \A label \in HintLines : \A i \in LastHintLines(delivered, label) :
             delivered[i].fix_hint.src = "callsite"


(* ---- properties: what verify_* returns ---------------------------------- *)
(* a call of verify_* has returned and nothing was done since *)
Returned == pc \in {"done", "rejected"}

(* the call that returned is one whose stream the reader could not open *)
OpenFailed ==
    /\ pc = "done"
    /\ last.site \in VerifySites
    /\ last.op = "reader_err_with_stack"

(* C12: verify_file and verify_memory return a non-zero status only when   *)
(* the reader failed to open the stream; every other call returns 0.       *)
C12_NonZeroOnlyOnReaderFailure ==
    Returned => (result.status # 0 <=> OpenFailed)

(* C12, amended: the status is 1 exactly when the reader failed to open    *)
(* the stream, -1 exactly when the arguments were rejected (and then       *)
(* nothing was emitted), and 0 on every other return, errors found or cap  *)
(* reached.                                                                *)
C12_NonZeroOnFailureOrBadArguments ==
    Returned =>
        /\ result.status \in {0, 1, 0 - 1}
        /\ result.status = 1 <=> OpenFailed
        /\ result.status = 0 - 1 <=> pc = "rejected"
        /\ pc = "rejected" => delivered = <<>>

C12_Witness ==
    /\ pc = "rejected"
    /\ last.site = "fv_verify_memory"
    /\ result.status = 0 - 1

(* C13: every call of verify_file or verify_memory that is given a result  *)
(* struct has written num_errors, num_warnings, num_hdus and aborted when  *)
(* it returns, whatever the return path.                                   *)
C13_ResultWritten ==
    Returned =>
        /\ result.num_errors # NoField
        /\ result.num_warnings # NoField
        /\ result.num_hdus # NoField
        /\ result.aborted # NoField

(* C14: after every call of verify_* has returned, the per-file error and  *)
(* warning counters of the state equal result.num_errors and               *)
(* result.num_warnings.                                                    *)
C14_CountersEqualResult ==
    Returned =>
        /\ get_total_err(ctx) = result.num_errors
        /\ get_total_warn(ctx) = result.num_warnings

(* ---- properties: the per-file totals ------------------------------------ *)
(* the verification is between its opening and its report *)
Running == pc \notin {"idle", "done", "rejected", "freed"}

(* C15: the per-file error total is the sum of the per-HDU error counts of *)
(* the HDU directory plus the file-level count, and likewise for warnings: *)
(* every diagnostic counted is in exactly one of these places while the    *)
(* file is verified, and the totals stored at the end are their sum.       *)
C15_TotalsAreSums ==
    /\ Running =>
         /\ counted.err = SumErr(ctx.hduname, ctx.totalhdu) + ctx.nerrs
         /\ counted.wrn = SumWrn(ctx.hduname, ctx.totalhdu) + ctx.nwrns
    /\ pc = "done" =>
         /\ get_total_err(ctx) = counted.err
         /\ get_total_warn(ctx) = counted.wrn

(* a file with an error counted in an HDU and another at file level *)
C15_Witness ==
    /\ pc = "done"
    /\ last.site = "close_report"
    /\ ctx.nerrs >= 1
    /\ counted.err > ctx.nerrs
    /\ get_total_err(ctx) = counted.err

(* ---- properties: allocations -------------------------------------------- *)
Pointers(c) == {c.hduname_ptr, c.cards_ptr, c.ttype_ptr}

C16_TotalsAreSumOfResults ==
    /\ fv_get_totals(ctx).total_errors = session.errs
    /\ fv_get_totals(ctx).total_warnings = session.wrns
    /\ last.site = "fv_get_totals" => last.code = session.errs /\ last.n = session.wrns

(* the totals read after two files, one of them aborted on the cap *)
C16_Witness ==
    /\ last.site = "fv_get_totals"
    /\ session.calls = 2
    /\ session.errs > MAXERRORS
    /\ session.wrns >= 1

(* the callback invocations of d, in order *)
Tagged(d) == SelectSeq(d, LAMBDA x : x.sink = "callback")

(* C18: within one verification the HDU tags of the diagnostics delivered  *)
(* never decrease in delivery order, the diagnostics emitted before the    *)
(* first HDU and a context used for an earlier file included.              *)
C18_HduTagsNeverDecrease ==
    \A i, j \in 1..Len(Tagged(delivered)) :
        i < j => Tagged(delivered)[i].hdu_num <= Tagged(delivered)[j].hdu_num

(* C19: once the callback is unregistered with fv_set_output(ctx, NULL, _) *)
(* no later verification invokes it and the report goes to the FILE        *)
(* argument and stderr; while a callback is registered every diagnostic of *)
(* a verification goes to the callback and none to a FILE stream.          *)
C19_OutputFollowsRegistration ==
    [][session'.calls = session.calls + 1 /\ last'.op = "verify" =>
         IF session.fn = "NULL"
         THEN /\ \A i \in 1..Len(delivered') :
                    /\ delivered'[i].sink \in {out', "stderr"}
                    /\ delivered'[i].sink # "NULL"
              /\ out' # "NULL" => \E i \in 1..Len(delivered') :
                                      /\ delivered'[i].sink = out'
                                      /\ delivered'[i].text = "File:"
         ELSE /\ delivered' # <<>>
              /\ \A i \in 1..Len(delivered') : delivered'[i].sink = "callback"]_vars

(* a report written to a file after the callback, invoked by an earlier *)
(* verification, was unregistered                                       *)
C19_Witness ==
    /\ last.op = "verify"
    /\ session.fn = "NULL"
    /\ session.invoked = 1
    /\ out = "file"
    /\ delivered # <<>>

(* C20: after fv_set_option(opt, v) with v in the range of opt,            *)
(* fv_get_option(opt) returns v, and no other option has changed.          *)
C20_OptionRoundTrip ==
    [][/\ last'.site = "fv_set_option" /\ last'.code \in Options =>
            /\ last'.status = 0
            /\ fv_get_option(ctx', last'.code) = last'.n
            /\ \A o \in Options \ {last'.code} :
                   fv_get_option(ctx', o) = fv_get_option(ctx, o)
       /\ (/\ last.site = "fv_set_option"
           /\ last'.site = "fv_get_option"
           /\ last'.code = last.code
           /\ last.code \in Options) => last'.status = last.n]_vars

(* the severity filter read back as 2 after another option was set *)
C20_Witness ==
    /\ last.site = "fv_get_option"
    /\ last.code = FV_OPT_ERR_REPORT
    /\ last.status = 2
    /\ session.sets = 2
    /\ ctx.fix_hints = 1


(* ---- properties: the command line program ------------------------------- *)
(* C21: when the invocation named at least one file, the exit code is      *)
(* min(total_errors + total_warnings, 255), the totals being those         *)
(* accumulated over all the files named.                                   *)
C21_ExitCodeIsCappedTotal ==
    pc = "exited" /\ last.site = "main" =>
        last.status = Min(fv_get_totals(ctx).total_errors
                          + fv_get_totals(ctx).total_warnings, ExitCap)


(* ---- properties: the HDU directory's names ------------------------------ *)
Named(i) == ctx.hduname[i]

(* the claim's condition on the HDUs i and j *)
SameName(i, j) ==
    /\ i # j
    /\ Named(i).extname # ""
    /\ Named(j).extname # ""
    /\ Named(i).extname = Named(j).extname
    /\ Named(i).hdutype = Named(j).hdutype
    /\ Named(i).extver = Named(j).extver

ReaderOps == {"reader_err", "reader_err_with_stack"}

(* C23: every reader_err and reader_err_with_stack call returns with the   *)
(* reader status cleared to 0 and the reader's error stack drained,        *)
(* whether the diagnostic was emitted, suppressed by the severity filter   *)
(* or dropped because the abort flag was set.                              *)
C23_StatusAndStackCleared ==
    (pc = "reader" /\ last.op \in ReaderOps) =>
        /\ last.status = 0
        /\ errstack = 0


(* C30: reader_err_with_stack only ever indexes its captured-stack buffer  *)
(* of StackCap entries at the positions 0..StackCap-1, in FILE mode and in *)
(* callback mode, also when the reader's stack holds StackCap or more      *)
(* messages.                                                               *)
C30_TmpIndexedInBounds ==
    (pc = "reader" /\ last.op = "reader_err_with_stack") =>
        counted \subseteq 0..(StackCap - 1)


(* ---- properties: one state, many files ---------------------------------- *)
(* a state that has verified nothing yet, with the options and sink of c *)
Unused(c) ==
    [fv_context_new(c.id) EXCEPT !.prhead = c.prhead, !.testdata = c.testdata,
                                 !.testcsum = c.testcsum, !.testfill = c.testfill,
                                 !.testhierarch = c.testhierarch, !.prstat = c.prstat,
                                 !.heasarc_conv = c.heasarc_conv,
                                 !.err_report = c.err_report,
                                 !.fix_hints = c.fix_hints, !.explain = c.explain,
                                 !.output_fn = c.output_fn]

(* what the call returns when it is the first one made with the state *)
FirstResult(c, site, f, o, nstack) ==
    SessionResult(verify_fits(Prologue([ctx |-> Unused(c), ctx_hint |-> NoHint,
                                        delivered |-> <<>>, errstack |-> 0,
                                        status |-> 0, late |-> 0], site, o),
                              o, f, nstack).ctx, site, f.n)

(* the step is the call site(f) with the FILE argument o *)
Verifies(site, f, o, nstack) ==
    /\ session.calls < MaxCalls
    /\ Explored(ctx, f, o, nstack)
    /\ last'.site = site
    /\ last'.op = "verify"
    /\ out' = o
    /\ ctx' = verify_fits(Prologue(M0, site, o), o, f, nstack).ctx

C25_OneBitDiagnosticPerColumn ==
    pc = "iterate" => \A i \in 1..MaxCols : counted.emitted[i] <= 1


(* ---- properties: the keyword checkers ----------------------------------- *)
(* a type checker has just been applied to a card with a null value *)
NullChecked ==
    /\ pc = "checker"
    /\ last.site \in TypeCheckers
    /\ counted.subject.ktype = "UNKNOWN"
    /\ counted.subject.kvalue = ""

(* the codes of the errors the callback has received in this call *)
ErrorCodes ==
    {delivered[k].code : k \in {j \in 1..Len(delivered) :
                                   /\ delivered[j].sink = "callback"
                                   /\ delivered[j].severity >= FV_MSG_ERROR}}

(* the error of severity 1 is neither filtered nor dropped *)
Unsuppressed == ctx.err_report <= 1 /\ ctx.maxerrors_reached = 0

(* C26 as stated: for each of the six required kinds, a card with a null   *)
(* value makes the type checker emit null-value and not wrong-type.        *)
C26_NullValueForEveryKind ==
    NullChecked =>
        /\ last.code = FV_ERR_NULL_VALUE
        /\ FV_ERR_WRONG_TYPE \notin ErrorCodes

(* C26 amended: for the required kinds string, integer and float a card    *)
(* with a null value makes the checker emit null-value and not wrong-type; *)
(* the checkers for logical, complex-int and complex-float have no test    *)
(* for a null value and emit wrong-type for such a card.                   *)
C26_NullValueWhereTested ==
    NullChecked =>
        /\ last.site \in {"check_str", "check_int", "check_flt"} =>
              /\ last.code = FV_ERR_NULL_VALUE
              /\ ErrorCodes \subseteq {FV_ERR_NULL_VALUE}
        /\ last.site \in {"check_log", "check_cmi", "check_cmf"} =>
              /\ last.code = FV_ERR_WRONG_TYPE
              /\ ErrorCodes \subseteq {FV_ERR_WRONG_TYPE}
        /\ (ctx.output_fn # "NULL" /\ Unsuppressed) =>
              /\ ErrorCodes = {last.code}
              /\ Len(delivered) = 1

C26_Witness ==
    /\ NullChecked
    /\ last.site = "check_flt"
    /\ ctx.output_fn # "NULL"
    /\ Len(delivered) = 1
    /\ delivered[1].code = FV_ERR_NULL_VALUE
    /\ delivered[1].severity = FV_MSG_ERROR

(* a fixed-format checker has just reported a failure where output goes *)
FixedFailed ==
    /\ pc = "checker"
    /\ last.site \in FixedCheckers
    /\ last.op = "err"
    /\ ctx.output_fn # "NULL" \/ out # "NULL"

(* the texts of the last n entries of what the call has delivered *)
LastTexts(n) ==
    [k \in 1..n |-> delivered[Len(delivered) - n + k].text]

(* how many card and arrow lines the call has delivered *)
CardLines ==
    Cardinality({k \in 1..Len(delivered) : delivered[k].text \in {"card", "arrow"}})

(* C27 as stated: every failure reported by check_fixed_int,               *)
(* check_fixed_log or check_fixed_str is accompanied by two further        *)
(* output lines, the offending card followed by an arrow-marker line.      *)
C27_CardAndArrowAfterEveryFailure ==
    FixedFailed =>
        /\ Len(delivered) >= 2
        /\ LastTexts(2) = <<"card", "arrow">>

(* C27 amended: where output is produced, every failure reported by        *)
(* check_fixed_int, and every failure of check_fixed_log and               *)
(* check_fixed_str about the position of the value, is followed by the     *)
(* offending card and an arrow-marker line; the failure of check_fixed_log *)
(* for a value that is not T or F is followed by no further line, and the  *)
(* failure of check_fixed_str for a missing closing quote by the card      *)
(* only.  A card that passes, and a call without output, adds no line.     *)
C27_CardAndArrowAfterPositionFailures ==
    /\ FixedFailed =>
          CASE counted.failure = "not_logical" -> CardLines = 0
            [] counted.failure = "no_closing_quote" ->
                   /\ CardLines = 1
                   /\ LastTexts(1) = <<"card">>
            [] OTHER ->
                   /\ CardLines = 2
                   /\ LastTexts(2) = <<"card", "arrow">>
    /\ (pc = "checker" /\ last.site \in FixedCheckers /\ ~FixedFailed) =>
          CardLines = 0

C27_Witness ==
    /\ FixedFailed
    /\ last.site = "check_fixed_str"
    /\ counted.failure = "short"
    /\ Len(delivered) = 3
    /\ delivered[1].code = FV_ERR_NOT_FIXED_FORMAT
    /\ LastTexts(2) = <<"card", "arrow">>


(* ---- properties: the line wrapper --------------------------------------- *)
(* C28: in FILE mode print_fmt terminates after finitely many lines for    *)
(* every text and every continuation margin, also for texts longer than    *)
(* 80 characters holding a run of non-space characters longer than the     *)
(* continuation width.                                                     *)
C28_PrintFmtTerminates == <>(pc = "fmt_done")


(* ---- properties: the HDU directory is freed once ------------------------ *)
(* C29: no allocation owned by the context is released twice: once          *)
(* close_report has destroyed the HDU directory of a verification,          *)
(* fv_context_free does not free that directory again, and close_report     *)
(* itself destroys only a directory that init_hduname allocated for the     *)
(* verification it ends.                                                    *)
C29_DirectoryFreedOnce ==
    [][/\ (pc # "freed" /\ pc' = "freed") => ctx.hduname_ptr # "dangling"
       /\ (pc = "report" /\ pc' = "done") => ctx.hduname_ptr = "live"]_vars
====
